---- MODULE Spec2Model ----
(***************************************************************************)
(* Model of the backup / restore operation controller of dbu               *)
(* (internal/app: App.Backup, App.Restore, applyRetention), of the run     *)
(* lock (internal/lock), and of the collaborators the controller drives:   *)
(* the adapter's dump producer, the transform layers, the in-memory pipe,  *)
(* the errgroup and the local storage backend.                             *)
(***************************************************************************)
EXTENDS Naturals, Integers, Sequences, FiniteSets, TLC

\* Each process runs one command of the CLI, hence one invocation of
\* Backup or Restore.
Procs == {"p1", "p2"}

\* ------------------------------------------------------------------ bounds
MaxLen == 2

PipeCap == 1

MaxTime == 1

MaxKeep == 1

MaxRetry == 2

MaxMinute == 2

\* The bytes a dump may emit, in order; a dump is a prefix of Source.
Source == <<"b1", "b2", "b3", "b4">>

\* ------------------------------------------------------- program constants
TypeNone == "none"

TypeGzip == "gzip"

TypeZstd == "zstd"

ManifestSuffix == ".manifest.json"

\* error values ("" is nil)
Nil == ""

ErrLocked == "another backup/restore is already running"

ErrWindowCfg == "invalid window"

ErrWindowMiss == "current time is outside configured backup window"

ErrValidate == "adapter validation failed"

ErrBackupType == "backup type not supported"

ErrNoKey == "encryption is enabled but encryption_key is empty"

ErrExists == "backup already exists"

ErrClosedPipe == "io: read/write on closed pipe"

ErrFileClosed == "file already closed"

ErrCanceled == "context canceled"

ErrKilled == "signal: killed"

ErrBadKey == "invalid key"

ErrIO == "i/o error"

ErrExistsFail == "exists check failed"

ErrCompression == "unsupported compression"

ErrWait == "exit status 1"

ErrNotFound == "no such object"

ErrDecrypt == "decrypt failed"

ErrDecompress == "decompress failed"

ErrNoRestoreKey == "encryption key is required to restore encrypted backup"

EOF == "EOF"

Pending == "pending"

VARIABLES
  cfg,         \* a.Cfg: the configuration shared by the invocations
  lockHolder,  \* the process holding the flock on Global.LockFile, or "none"
  objects,     \* the storage backend: object key -> object
  now,         \* the latest reading of the wall clock
  backedUp,    \* history: artifact key -> bytes the producer emitted in the
               \* successful Backup that stored it
  pc,          \* position of each invocation in Backup / Restore
  ctl,         \* locals of the invocation (opErr, key, ...) and its history
  dump,        \* the adapter's DumpStream
  enc,         \* the encode task (second eg.Go)
  snk,         \* the sink task (first eg.Go)
  pipe,        \* io.Pipe
  eg,          \* errgroup
  rst          \* locals of Restore

vars == <<cfg, lockHolder, objects, now, backedUp, pc, ctl, dump, enc,
          snk, pipe, eg, rst>>

\* --------------------------------------------------------------- helpers
\* the byte sequences a producer may emit, the empty one included
Dumps == {SubSeq(Source, 1, n) : n \in 0..MaxLen}

\* a[k] := v on a function with a growing domain
Store(f, k, v) == [x \in DOMAIN f \cup {k} |-> IF x = k THEN v ELSE f[x]]

Remove(f, k) == [x \in DOMAIN f \ {k} |-> f[x]]

\* ------------------------------------------------------------ key builder
Prefix == "backups"

DBType == "postgres"

DBName == "appdb"

\* strings.Trim(prefix, "/") on the prefixes a configuration may give
Trim(prefix) ==
  IF prefix = "/" THEN ""
  ELSE IF prefix = "/" \o Prefix \o "/" THEN Prefix
  ELSE prefix

\* path.Clean on the elements of a relative path: "." is dropped, ".."
\* removes the element before it, or stays when there is none to remove
RECURSIVE Clean(_, _)
Clean(parts, out) ==
  IF parts = <<>> THEN out
  ELSE LET h == Head(parts)
       IN IF h = "." THEN Clean(Tail(parts), out)
          ELSE IF h = ".." /\ out # <<>> /\ out[Len(out)] # ".."
          THEN Clean(Tail(parts), SubSeq(out, 1, Len(out) - 1))
          ELSE Clean(Tail(parts), Append(out, h))

NonEmpty(x) == x # ""

\* path.Join: the empty elements are ignored, the rest is cleaned; the
\* result is the sequence of the path's elements, <<>> being "" and
\* <<".">> the path a non-empty join cleans to when nothing is left
Join(parts) ==
  LET ne == SelectSeq(parts, NonEmpty)
      c == Clean(ne, <<>>)
  IN IF ne = <<>> THEN <<>> ELSE IF c = <<>> THEN <<".">> ELSE c

\* util.BuildPrefix
BuildPrefix(prefix, dbType, dbName) ==
  Join((IF prefix # "" THEN <<Trim(prefix)>> ELSE <<>>) \o
       (IF dbType # "" THEN <<dbType>> ELSE <<>>) \o
       (IF dbName # "" THEN <<dbName>> ELSE <<>>))

\* util.BuildObjectKey: the path elements, the last one being
\* <timestamp>_<backupType>[.<extension>]
BuildObjectKey(prefix, dbType, dbName, backupType, when, extension) ==
  Join((IF prefix # "" THEN <<Trim(prefix)>> ELSE <<>>) \o <<dbType, dbName>> \o
       <<<<when, backupType, extension>>>>)

\* storage.ManifestKey: objectKey + ManifestSuffix
ManifestKey(objectKey) == Append(objectKey, ManifestSuffix)

\* strings.HasSuffix(key, ManifestSuffix)
IsManifest(k) == k[Len(k)] = ManifestSuffix

HasPrefix(k, prefix) ==
  Len(k) >= Len(prefix) /\ SubSeq(k, 1, Len(prefix)) = prefix

\* another database kept under the same prefix and type
SiblingName == "appdb2"

\* strings.HasPrefix on the names of path elements
NameHasPrefix(name, p) ==
  \/ p = ""
  \/ name = p
  \/ (p = DBName /\ name = SiblingName)
  \/ (p = "." /\ name = "..")

\* the elements of a key before its last one (the timestamp element, with
\* the manifest suffix when the key is a manifest's)
Names(k) == SubSeq(k, 1, Len(k) - (IF IsManifest(k) THEN 2 ELSE 1))

\* strings.HasPrefix on keys: the key written out with "/" between its
\* elements starts with the prefix written out the same way. A timestamp
\* element starts with no name.
StringHasPrefix(k, prefix) ==
  \/ prefix = <<>>
  \/ LET n == Len(prefix)
         names == Names(k)
     IN /\ Len(names) >= n
        /\ SubSeq(names, 1, n - 1) = SubSeq(prefix, 1, n - 1)
        /\ NameHasPrefix(names[n], prefix[n])

\* the second of the minute at which the clock of the model reads 0
ClockBase == 9

Digit(n) == <<"0", "1", "2", "3", "4", "5", "6", "7", "8", "9">>[n + 1]

\* a timestamp whose fields are written without leading zeros
FormatUnpadded(when) ==
  LET at == ClockBase + when
      field(n) == IF n < 10 THEN <<Digit(n)>> ELSE <<Digit(n \div 10), Digit(n % 10)>>
  IN <<"2", "0", "0", "6", "0", "1", "0", "2", "T", "1", "5">> \o
     field((at \div 60) % 60) \o field(at % 60) \o <<"Z">>

\* when.UTC().Format("20060102T150405Z"): the characters of the timestamp,
\* every field of fixed width; the clock of the model counts the seconds
\* of one hour
Format(when) ==
  LET at == ClockBase + when
      field(n) == <<Digit(n \div 10), Digit(n % 10)>>
  IN <<"2", "0", "0", "6", "0", "1", "0", "2", "T", "1", "5">> \o
     field((at \div 60) % 60) \o field(at % 60) \o <<"Z">>

\* the characters of the backup types and of the extensions
Chars(w) ==
  CASE w = "" -> <<>>
    [] w = "full" -> <<"f", "u", "l", "l">>
    [] w = "incremental" -> <<"i", "n", "c", "r", "e", "m", "e", "n", "t", "a", "l">>
    [] w = "differential" -> <<"d", "i", "f", "f", "e", "r", "e", "n", "t", "i", "a", "l">>
    [] w = "backup" -> <<"b", "a", "c", "k", "u", "p">>
    [] w = "backup.gz" -> <<"b", "a", "c", "k", "u", "p", ".", "g", "z">>
    [] w = "backup.zst" -> <<"b", "a", "c", "k", "u", "p", ".", "z", "s", "t">>
    [] w = "backup.enc" -> <<"b", "a", "c", "k", "u", "p", ".", "e", "n", "c">>
    [] w = "backup.gz.enc" ->
         <<"b", "a", "c", "k", "u", "p", ".", "g", "z", ".", "e", "n", "c">>
    [] w = "backup.zst.enc" ->
         <<"b", "a", "c", "k", "u", "p", ".", "z", "s", "t", ".", "e", "n", "c">>

\* fmt.Sprintf("%s_%s", ...) and the extension: the characters of the last
\* element of an artifact key
Suffix(e) ==
  Format(e[1]) \o <<"_">> \o Chars(e[2]) \o
  (IF e[3] # "" THEN <<".">> \o Chars(e[3]) ELSE <<>>)

\* an artifact key written out: each name (kept whole) and "/", then the
\* characters of the last element
Render(k) ==
  [i \in 1..(2 * (Len(k) - 1)) |-> IF i % 2 = 1 THEN k[(i + 1) \div 2] ELSE "/"] \o
  Suffix(k[Len(k)])

\* the characters of the last elements, in the order of their byte values
Alphabet ==
  <<".", "/", "0", "1", "2", "3", "4", "5", "6", "7", "8", "9", "T", "Z", "_",
    "a", "b", "c", "d", "e", "f", "g", "i", "k", "l", "m", "n", "p", "r", "s",
    "t", "u", "z">>

Ord(c) == CHOOSE i \in DOMAIN Alphabet : Alphabet[i] = c

\* a < b on strings: at the first place where they differ a has the
\* smaller byte, or a ends first
Less(a, b) ==
  LET common == 1..(IF Len(a) < Len(b) THEN Len(a) ELSE Len(b))
      diff == {i \in common : a[i] # b[i]}
  IN IF diff = {} THEN Len(a) < Len(b)
     ELSE LET i == CHOOSE x \in diff : \A y \in diff : x <= y
          IN Ord(a[i]) < Ord(b[i])

\* buildExtension
buildExtension(compression, encryption) ==
  LET base == "backup"
      c == IF compression = TypeGzip THEN base \o ".gz"
           ELSE IF compression = TypeZstd THEN base \o ".zst"
           ELSE base
  IN IF encryption THEN c \o ".enc" ELSE c

\* statusFromErr
statusFromErr(err) == IF err = Nil THEN "success" ELSE "failed"

\* ------------------------------------------------------ transform layers
\* A stream is a sequence of items. An item is a sequence of strings: the
\* tags of the layers it went through, outermost first, then the payload
\* (a producer byte, or EndMark for the block a layer flushes on Close).
EndMark == "#end"

Raw(b) == <<b>>

\* what a layer's Write hands to the writer below it
Wrap(tag, item) == <<tag>> \o item

\* compress.WrapWriter: the layer's tag, "" when it is the nop writer
CompTag(kind) ==
  IF kind = TypeGzip THEN "gz" ELSE IF kind = TypeZstd THEN "zst" ELSE ""

EncTag == "enc"

\* a Write on the writer whose layers (bottom first) are stack: the item
\* goes through the top layer first and reaches the pipe wrapped by all
RECURSIVE Through(_, _)
Through(stack, item) ==
  IF stack = <<>> THEN item
  ELSE Through(SubSeq(stack, 1, Len(stack) - 1), Wrap(stack[Len(stack)], item))

\* cryptoutil.ParseKey
ParseKey(k) == IF k = "k32" THEN [err |-> Nil] ELSE [err |-> ErrBadKey]

KeyValues == {"", "k32", "short"}

\* ------------------------------------------------------------- schedule
\* a day of the model has the minutes 00:00 .. 00:MaxMinute, a minute
\* has two seconds
Minutes == 0..MaxMinute

ClockStrings == <<"00:00", "00:01", "00:02", "00:03", "00:04", "00:05">>

\* the "15:04" strings of the minutes of the day
Clocks == {ClockStrings[m + 1] : m \in Minutes}

\* the readings of time.Now(): minute of the day and second, in UTC
Times == [min : Minutes, sec : 0..1]

\* time.LoadLocation: the zones it knows, with their offset from UTC in
\* minutes; the location of time.Now() is UTC
ZoneOffset == [UTC |-> 0, East |-> 1]

\* a.Cfg.Schedule of the configurations whose subject is not the window
DaySchedule == [WindowStart |-> "00:01", WindowEnd |-> "", Timezone |-> ""]

BadSchedule == [WindowStart |-> "1am", WindowEnd |-> "", Timezone |-> ""]

\* an InWindow that compares the clock to the second
InWindowToTheSecond(t, start, end, tz) ==
  IF start = "" /\ end = "" THEN [ok |-> TRUE, err |-> Nil]
  ELSE IF tz # "" /\ tz \notin DOMAIN ZoneOffset THEN [ok |-> FALSE, err |-> ErrWindowCfg]
  ELSE
    LET off == IF tz = "" THEN 0 ELSE ZoneOffset[tz]
        parse(v) == IF v = "" THEN 0
                    ELSE IF v \in Clocks THEN CHOOSE m \in Minutes : ClockStrings[m + 1] = v
                    ELSE -1
        startTime == parse(start)
        endTime == parse(end)
        current == ((t.min + off) % (MaxMinute + 1)) * 2 + t.sec
        startToday == startTime * 2
        endToday == endTime * 2
    IN IF startTime < 0 \/ endTime < 0 THEN [ok |-> FALSE, err |-> ErrWindowCfg]
       ELSE IF start # "" /\ end = "" THEN [ok |-> ~(current < startToday), err |-> Nil]
       ELSE IF start = "" /\ end # "" THEN [ok |-> ~(current > endToday), err |-> Nil]
       ELSE IF endToday > startToday
         THEN [ok |-> ~(current < startToday) /\ ~(current > endToday), err |-> Nil]
       ELSE [ok |-> ~(current < startToday) \/ ~(current > endToday), err |-> Nil]

\* util.InWindow, lines 10-58. Times of one day are counted in seconds
\* from its midnight in loc; parse yields -1 for a string that is not
\* "15:04"
InWindow(t, start, end, tz) ==
  IF start = "" /\ end = "" THEN [ok |-> TRUE, err |-> Nil]
  ELSE IF tz # "" /\ tz \notin DOMAIN ZoneOffset THEN [ok |-> FALSE, err |-> ErrWindowCfg]
  ELSE
    LET off == IF tz = "" THEN 0 ELSE ZoneOffset[tz]
        parse(v) == IF v = "" THEN 0
                    ELSE IF v \in Clocks THEN CHOOSE m \in Minutes : ClockStrings[m + 1] = v
                    ELSE -1
        startTime == parse(start)
        endTime == parse(end)
        current == ((t.min + off) % (MaxMinute + 1)) * 2
        startToday == startTime * 2
        endToday == endTime * 2
    IN IF startTime < 0 \/ endTime < 0 THEN [ok |-> FALSE, err |-> ErrWindowCfg]
       ELSE IF start # "" /\ end = "" THEN [ok |-> ~(current < startToday), err |-> Nil]
       ELSE IF start = "" /\ end # "" THEN [ok |-> ~(current > endToday), err |-> Nil]
       ELSE IF endToday > startToday
         THEN [ok |-> ~(current < startToday) /\ ~(current > endToday), err |-> Nil]
       ELSE [ok |-> ~(current < startToday) \/ ~(current > endToday), err |-> Nil]

\* ----------------------------------------------------------------- state
NoKey == <<>>

\* no reading of the clock is held
NoClock == [min |-> 0 - 1, sec |-> 0]

NoManifest == [Key |-> NoKey, Compression |-> "", Encryption |-> FALSE, SizeBytes |-> 0]

CtlInit ==
  [op |-> "none", opErr |-> Nil, ret |-> Pending, key |-> NoKey,
   notifs |-> <<>>, notifier |-> FALSE, acquires |-> 0, held |-> FALSE,
   trace |-> {}, faults |-> {}, first |-> Nil, waitErr |-> Nil, backupType |-> "",
   idempotent |-> FALSE, gateSaw |-> FALSE, dryRun |-> FALSE, data |-> <<>>,
   calls |-> 0, waits |-> 0, retried |-> {}, swallowed |-> {}, clock |-> NoClock,
   ctxDone |-> FALSE]

DumpInit == [state |-> "none", data |-> <<>>, sent |-> 0, buf |-> <<>>,
             status |-> Nil, rclosed |-> FALSE]

EncInit == [pc |-> "off", phase |-> "copy", stack |-> <<>>, item |-> <<>>,
            ci |-> 0, ret |-> Pending]

SnkInit == [pc |-> "off", ret |-> Pending]

PipeInit == [rclosed |-> FALSE, werr |-> Nil]

EgInit == [err |-> Nil, cancelled |-> FALSE, running |-> 0]

RstInit == [manifest |-> NoManifest, stream |-> <<>>, consumer |-> "none",
            received |-> <<>>]

\* a configuration without encryption has no key configured; the schedule
\* is a window from 00:01 on, or one that does not parse
Configs ==
  {c \in [Compression : {TypeNone, TypeGzip, TypeZstd},
          Encryption : BOOLEAN,
          EncryptionKey : KeyValues,
          Adapter : {"process", "file"},
          Prefix : {Prefix},
          DBType : {DBType},
          DBName : {DBName},
          Backend : {"local"}, RetryCount : {1},
          Schedule : {DaySchedule, BadSchedule}] :
     /\ ~c.Encryption => c.EncryptionKey = ""
     /\ c.Schedule = BadSchedule =>
          (c.Adapter = "file" /\ c.Compression = TypeNone /\ ~c.Encryption)}

Init ==
  /\ cfg \in Configs
  /\ lockHolder = "none"
  /\ objects = <<>>
  /\ now = 0
  /\ backedUp = <<>>
  /\ pc = [p \in Procs |-> "idle"]
  /\ ctl = [p \in Procs |-> CtlInit]
  /\ dump = [p \in Procs |-> DumpInit]
  /\ enc = [p \in Procs |-> EncInit]
  /\ snk = [p \in Procs |-> SnkInit]
  /\ pipe = [p \in Procs |-> PipeInit]
  /\ eg = [p \in Procs |-> EgInit]
  /\ rst = [p \in Procs |-> RstInit]


\* ------------------------------------------------------------------ lock
\* a lock that every caller obtains
AcquireAlways(p) == TRUE

\* lock.Acquire: one flock.TryLock, never waits
Acquire(p) == lockHolder = "none"

\* a Release that leaves the lock held
ReleaseNothing(p) == lockHolder

\* Lock.Release: Unlock of the lock this guard holds
Release(p) == IF lockHolder = p THEN "none" ELSE lockHolder

\* a finished invocation: Backup / Restore has returned to its caller
Returned(p) == pc[p] = "returned"

Xfer == <<dump, enc, snk, pipe, eg>>

\* `return err` inside Backup / Restore: the return value is fixed and the
\* deferred calls run from position next
Return(p, err, setOpErr, next, calls) ==
  /\ ctl' = [ctl EXCEPT ![p].ret = err,
                        ![p].opErr = IF setOpErr THEN err ELSE @,
                        ![p].trace = @ \cup calls]
  /\ pc' = [pc EXCEPT ![p] = next]

\* ---------------------------------------------------------------- Backup
\* Backup, lines 118-148: the notification defer is registered, then
\* lock.Acquire. The locals are fresh; calls and retried belong to the
\* command that invokes Backup.
BackupAcquire(p) ==
  /\ pc[p] = "idle"
  /\ IF Acquire(p)
     THEN /\ lockHolder' = p
          /\ ctl' = [ctl EXCEPT ![p] = [CtlInit EXCEPT !.op = "backup",
                                        !.acquires = 1, !.held = TRUE,
                                        !.calls = ctl[p].calls + 1,
                                        !.waits = ctl[p].waits,
                                        !.retried = ctl[p].retried]]
          /\ pc' = [pc EXCEPT ![p] = "b_window"]
     ELSE /\ lockHolder' = lockHolder
          /\ ctl' = [ctl EXCEPT ![p] = [CtlInit EXCEPT !.op = "backup",
                                        !.acquires = 1, !.opErr = ErrLocked,
                                        !.ret = ErrLocked,
                                        !.calls = ctl[p].calls + 1,
                                        !.waits = ctl[p].waits,
                                        !.retried = ctl[p].retried]]
          /\ pc' = [pc EXCEPT ![p] = "d_notify"]
  /\ UNCHANGED <<cfg, objects, now, backedUp, rst>>
  /\ UNCHANGED Xfer

\* Backup, lines 150-157: util.InWindow of time.Now(); its error is
\* returned without being stored in opErr
BackupWindow(p) ==
  /\ pc[p] = "b_window"
  /\ \E t \in Times :
       LET r == InWindow(t, cfg.Schedule.WindowStart, cfg.Schedule.WindowEnd,
                         cfg.Schedule.Timezone)
       IN IF r.err # Nil THEN
            /\ ctl' = [ctl EXCEPT ![p].ret = r.err, ![p].clock = t]
            /\ pc' = [pc EXCEPT ![p] = "d_release"]
          ELSE IF ~r.ok THEN
            /\ ctl' = [ctl EXCEPT ![p].ret = ErrWindowMiss, ![p].opErr = ErrWindowMiss,
                                  ![p].clock = t]
            /\ pc' = [pc EXCEPT ![p] = "d_release"]
          ELSE
            /\ ctl' = [ctl EXCEPT ![p].clock = t]
            /\ pc' = [pc EXCEPT ![p] = "b_validate"]
  /\ UNCHANGED <<cfg, lockHolder, objects, now, backedUp, rst>>
  /\ UNCHANGED Xfer

\* Adapter.Capabilities: no adapter supports incremental or differential
Capabilities == [Incremental |-> FALSE, Differential |-> FALSE]

BackupTypes == {"full", "incremental", "differential"}

\* Backup, lines 158-177: Adapter.Validate, the capability and key
\* checks, then the artifact key from the clock
BackupValidate(p) ==
  /\ pc[p] = "b_validate"
  /\ \E ok \in BOOLEAN, bt \in BackupTypes, t \in now..MaxTime :
       IF ~ok THEN
         /\ Return(p, ErrValidate, TRUE, "d_release", {"Validate"})
         /\ now' = now
       ELSE IF \/ (bt = "incremental" /\ ~Capabilities.Incremental)
               \/ (bt = "differential" /\ ~Capabilities.Differential) THEN
         /\ Return(p, ErrBackupType, TRUE, "d_release", {"Validate"})
         /\ now' = now
       ELSE IF cfg.Encryption /\ cfg.EncryptionKey = "" THEN
         /\ Return(p, ErrNoKey, TRUE, "d_release", {"Validate"})
         /\ now' = now
       ELSE
         /\ now' = t
         /\ ctl' = [ctl EXCEPT
              ![p].trace = @ \cup {"Validate"},
              ![p].clock = NoClock,
              ![p].backupType = bt,
              ![p].key = BuildObjectKey(cfg.Prefix, cfg.DBType, cfg.DBName, bt, t,
                           buildExtension(cfg.Compression, cfg.Encryption))]
         /\ pc' = [pc EXCEPT ![p] = "b_exists"]
  /\ UNCHANGED <<cfg, lockHolder, objects, backedUp, rst>>
  /\ UNCHANGED Xfer

\* an Exists that never finds the object
ExistsNever(k) == FALSE

\* Storage.Exists (Local.Exists): os.Stat of the object
Exists(k) == k \in DOMAIN objects

\* Backup, lines 179-189: the idempotency check
BackupExists(p) ==
  /\ pc[p] = "b_exists"
  /\ \E idem \in BOOLEAN, fails \in BOOLEAN :
       LET c == [ctl EXCEPT ![p].idempotent = idem,
                            ![p].gateSaw = ctl[p].key \in DOMAIN objects /\ ~fails]
       IN IF ~idem THEN
            /\ ~fails
            /\ ctl' = c
            /\ pc' = [pc EXCEPT ![p] = "b_dump"]
          ELSE IF fails THEN
            /\ ctl' = [c EXCEPT ![p].ret = ErrExistsFail, ![p].opErr = ErrExistsFail,
                                ![p].trace = @ \cup {"Exists"}]
            /\ pc' = [pc EXCEPT ![p] = "d_release"]
          ELSE IF Exists(ctl[p].key) THEN
            /\ ctl' = [c EXCEPT ![p].ret = ErrExists, ![p].opErr = ErrExists,
                                ![p].trace = @ \cup {"Exists"}]
            /\ pc' = [pc EXCEPT ![p] = "d_release"]
          ELSE
            /\ ctl' = [c EXCEPT ![p].trace = @ \cup {"Exists"}]
            /\ pc' = [pc EXCEPT ![p] = "b_dump"]
  /\ UNCHANGED <<cfg, lockHolder, objects, now, backedUp, rst>>
  /\ UNCHANGED Xfer

\* Adapter.Dump: a started subprocess whose stdout is the stream
\* (PostgresAdapter.Dump), or an opened file (SQLiteAdapter.Dump)
Dump(kind, data) ==
  [state |-> IF kind = "process" THEN "running" ELSE "file",
   data |-> data, sent |-> 0, buf |-> <<>>, status |-> Nil, rclosed |-> FALSE]

\* Backup, lines 191-248: Adapter.Dump, io.Pipe, errgroup.WithContext and
\* the two eg.Go calls
BackupDump(p) ==
  /\ pc[p] = "b_dump"
  /\ \E ok \in BOOLEAN, data \in Dumps :
       IF ~ok THEN
         /\ data = <<>>
         /\ Return(p, ErrIO, TRUE, "d_release", {"Dump"})
         /\ UNCHANGED Xfer
       ELSE
         /\ dump' = [dump EXCEPT ![p] = Dump(cfg.Adapter, data)]
         /\ pipe' = [pipe EXCEPT ![p] = PipeInit]
         /\ eg' = [eg EXCEPT ![p] = [EgInit EXCEPT !.running = 2]]
         /\ snk' = [snk EXCEPT ![p] = [SnkInit EXCEPT !.pc = "start"]]
         /\ enc' = [enc EXCEPT ![p] = [EncInit EXCEPT !.pc = "setup"]]
         /\ ctl' = [ctl EXCEPT ![p].trace = @ \cup {"Dump"}, ![p].data = data]
         /\ pc' = [pc EXCEPT ![p] = "b_wait"]
  /\ UNCHANGED <<cfg, lockHolder, objects, now, backedUp, rst>>


\* ------------------------------------------------------------- errgroup
\* errgroup.Group: a task returned err; the first non-nil error is kept
\* and cancels egCtx
TaskDone(g, err) ==
  [g EXCEPT !.err = IF @ = Nil THEN err ELSE @,
            !.cancelled = @ \/ err # Nil,
            !.running = @ - 1]

\* --------------------------------------------------------------- io.Pipe
\* PipeWriter.CloseWithError / Close: the first error stored wins
CloseWithError(pp, err) == [pp EXCEPT !.werr = IF @ = Nil THEN err ELSE @]

\* either end of the pipe was closed
PipeDone(pp) == pp.rclosed \/ pp.werr # Nil

\* ------------------------------------------------------------ producer
\* the dump subprocess writes its next byte to stdout; it blocks when the
\* OS pipe is full
ProdWrite(p) ==
  /\ dump[p].state = "running"
  /\ dump[p].sent < Len(dump[p].data)
  /\ Len(dump[p].buf) < PipeCap
  /\ ~dump[p].rclosed
  /\ dump' = [dump EXCEPT ![p].buf = Append(@, dump[p].data[dump[p].sent + 1]),
                          ![p].sent = @ + 1]
  /\ UNCHANGED <<cfg, lockHolder, objects, now, backedUp, pc, ctl, enc,
                 snk, pipe, eg, rst>>

\* the dump subprocess exits after its last byte, with either status
ProdExit(p) ==
  /\ dump[p].state = "running"
  /\ dump[p].sent = Len(dump[p].data)
  /\ \E st \in {Nil, ErrWait} :
       dump' = [dump EXCEPT ![p].state = "exited", ![p].status = st]
  /\ UNCHANGED <<cfg, lockHolder, objects, now, backedUp, pc, ctl, enc,
                 snk, pipe, eg, rst>>

\* the dump subprocess dies before its last byte
ProdCrash(p) ==
  /\ dump[p].state = "running"
  /\ dump[p].sent < Len(dump[p].data)
  /\ dump' = [dump EXCEPT ![p].state = "exited", ![p].status = ErrWait]
  /\ UNCHANGED <<cfg, lockHolder, objects, now, backedUp, pc, ctl, enc,
                 snk, pipe, eg, rst>>

\* exec.CommandContext(ctx, ...): the subprocess is killed once the
\* context is done
ProdKill(p) ==
  /\ dump[p].state = "running"
  /\ ctl[p].ctxDone
  /\ dump' = [dump EXCEPT ![p].state = "exited", ![p].status = ErrKilled]
  /\ UNCHANGED <<cfg, lockHolder, objects, now, backedUp, pc, ctl, enc,
                 snk, pipe, eg, rst>>

\* cmd/dbu newBackupCmd, context.WithTimeout(ctx, OperationTimeout): the
\* context of the operation is cancelled or times out while the tasks of
\* the transfer are running; egCtx is derived from it
CtxCancel(p) ==
  /\ pc[p] \in {"b_wait", "b_egwait"}
  /\ eg[p].running > 0
  /\ ~ctl[p].ctxDone
  /\ ctl' = [ctl EXCEPT ![p].ctxDone = TRUE]
  /\ eg' = [eg EXCEPT ![p].cancelled = TRUE]
  /\ UNCHANGED <<cfg, lockHolder, objects, now, backedUp, pc, dump, enc,
                 snk, pipe, rst>>

\* ----------------------------------------------------------- encode task
\* lines 207-231: the writer chain. writer starts as the pipe writer, the
\* compression writer wraps it, the encryption writer wraps that one
WriterStack(c) ==
  (IF c.Compression # "" /\ c.Compression # TypeNone
   THEN <<CompTag(c.Compression)>> ELSE <<>>) \o
  (IF c.Encryption THEN <<EncTag>> ELSE <<>>)

\* the encode task returns err after pipeWriter.CloseWithError(err)
EncFail(p, err) ==
  /\ pipe' = [pipe EXCEPT ![p] = CloseWithError(@, err)]
  /\ enc' = [enc EXCEPT ![p].pc = "done", ![p].ret = err, ![p].item = <<>>]
  /\ eg' = [eg EXCEPT ![p] = TaskDone(@, err)]
  /\ ctl' = [ctl EXCEPT ![p].faults = @ \cup {"encode"},
                        ![p].first = IF @ = Nil THEN err ELSE @]

\* a compression identifier compress knows nothing of
UnknownCompression == "lz4"

\* compress.WrapWriter: its error
WrapWriterErr(kind) ==
  IF kind \in {"", TypeNone, TypeGzip, TypeZstd} THEN Nil ELSE ErrCompression

\* lines 207-231: compress.WrapWriter, then cryptoutil.ParseKey
EncSetup(p) ==
  /\ enc[p].pc = "setup"
  /\ IF cfg.Compression # "" /\ cfg.Compression # TypeNone
        /\ WrapWriterErr(cfg.Compression) # Nil
     THEN EncFail(p, WrapWriterErr(cfg.Compression))
     ELSE IF cfg.Encryption /\ ParseKey(cfg.EncryptionKey).err # Nil
     THEN EncFail(p, ParseKey(cfg.EncryptionKey).err)
     ELSE /\ enc' = [enc EXCEPT ![p].pc = "read", ![p].stack = WriterStack(cfg)]
          /\ UNCHANGED <<pipe, eg, ctl>>
  /\ UNCHANGED <<cfg, lockHolder, objects, now, backedUp, pc, dump, snk, rst>>

\* io.Copy(writer, dumpStream.Reader): one Read of the producer's stream
EncRead(p) ==
  /\ enc[p].pc = "read"
  /\ LET d == dump[p]
         take(b) == [enc EXCEPT ![p].pc = "write", ![p].phase = "copy",
                                ![p].item = Through(enc[p].stack, Raw(b))]
         eof == [enc EXCEPT ![p].pc = "close", ![p].ci = Len(enc[p].stack) + 1]
     IN IF d.rclosed THEN
          /\ EncFail(p, ErrFileClosed)
          /\ dump' = dump
        ELSE IF d.state = "file" THEN
          /\ IF d.sent < Len(d.data)
             THEN /\ enc' = take(d.data[d.sent + 1])
                  /\ dump' = [dump EXCEPT ![p].sent = @ + 1]
             ELSE /\ enc' = eof
                  /\ dump' = dump
          /\ UNCHANGED <<pipe, eg, ctl>>
        ELSE
          /\ d.buf # <<>> \/ d.state = "exited"
          /\ IF d.buf # <<>>
             THEN /\ enc' = take(Head(d.buf))
                  /\ dump' = [dump EXCEPT ![p].buf = Tail(@)]
             ELSE /\ enc' = eof
                  /\ dump' = dump
          /\ UNCHANGED <<pipe, eg, ctl>>
  /\ UNCHANGED <<cfg, lockHolder, objects, now, backedUp, pc, snk, rst>>

\* Local.Put, io.Copy(file, reader): the bytes of one pipe write reach
\* the file
FileAppend(objs, k, item, t) ==
  IF k \in DOMAIN objs
  THEN [objs EXCEPT ![k].data = Append(@, item), ![k].mod = t]
  ELSE objs

\* a Write on the pipe: it fails once either end is closed, else it blocks
\* until the sink task reads it
EncWrite(p) ==
  /\ enc[p].pc = "write"
  /\ IF PipeDone(pipe[p]) THEN
       /\ EncFail(p, ErrClosedPipe)
       /\ objects' = objects
     ELSE
       /\ snk[p].pc = "copy"
       /\ objects' = FileAppend(objects, ctl[p].key, enc[p].item, now)
       /\ enc' = [enc EXCEPT ![p].pc = IF enc[p].phase = "copy" THEN "read" ELSE "close",
                             ![p].item = <<>>]
       /\ UNCHANGED <<pipe, eg, ctl>>
  /\ UNCHANGED <<cfg, lockHolder, now, backedUp, pc, dump, snk, rst>>

\* closers closed from closers[0] upwards: the layer closest to the sink
\* first
EncCloseOutermostFirst(p) ==
  /\ enc[p].pc = "close"
  /\ IF enc[p].ci > 1 THEN
       /\ enc' = [enc EXCEPT ![p].pc = "write", ![p].phase = "close",
                             ![p].ci = @ - 1,
                             ![p].item = Through(SubSeq(enc[p].stack, 1,
                                                        Len(enc[p].stack) + 2 - enc[p].ci),
                                                 <<EndMark>>)]
       /\ UNCHANGED <<pipe, eg>>
     ELSE
       /\ pipe' = [pipe EXCEPT ![p] = CloseWithError(@, EOF)]
       /\ enc' = [enc EXCEPT ![p].pc = "done", ![p].ret = Nil]
       /\ eg' = [eg EXCEPT ![p] = TaskDone(@, Nil)]
  /\ UNCHANGED <<cfg, lockHolder, objects, now, backedUp, pc, ctl, dump, snk, rst>>

\* lines 237-247: closers[i].Close() for i = len(closers)-1 .. 0, where
\* closers[0] is the pipe writer, then pipeWriter.Close() once more. A
\* layer's Close writes its final block to the writer below it.
EncClose(p) ==
  /\ enc[p].pc = "close"
  /\ IF enc[p].ci > 1 THEN
       /\ enc' = [enc EXCEPT ![p].pc = "write", ![p].phase = "close",
                             ![p].ci = @ - 1,
                             ![p].item = Through(SubSeq(enc[p].stack, 1, enc[p].ci - 1),
                                                 <<EndMark>>)]
       /\ UNCHANGED <<pipe, eg>>
     ELSE
       /\ pipe' = [pipe EXCEPT ![p] = CloseWithError(@, EOF)]
       /\ enc' = [enc EXCEPT ![p].pc = "done", ![p].ret = Nil]
       /\ eg' = [eg EXCEPT ![p] = TaskDone(@, Nil)]
  /\ UNCHANGED <<cfg, lockHolder, objects, now, backedUp, pc, ctl, dump, snk, rst>>

\* ------------------------------------------------------------- sink task
\* lines 201-204: Storage.Put returned err, then the deferred
\* pipeReader.Close()
SinkDone(p, err, own) ==
  /\ snk' = [snk EXCEPT ![p].pc = "done", ![p].ret = err]
  /\ pipe' = [pipe EXCEPT ![p].rclosed = TRUE]
  /\ eg' = [eg EXCEPT ![p] = TaskDone(@, err)]
  /\ ctl' = [ctl EXCEPT ![p].trace = @ \cup {"Put"},
                        ![p].faults = IF own THEN @ \cup {"sink"} ELSE @,
                        ![p].first = IF @ = Nil THEN err ELSE @]

NewObject(t) == [data |-> <<>>, man |-> NoManifest, mod |-> t]

\* Local.Put up to the OpenFile: the ctx check, then the object is created
\* or truncated
SinkStart(p) ==
  /\ snk[p].pc = "start"
  /\ IF eg[p].cancelled THEN
       /\ SinkDone(p, ErrCanceled, FALSE)
       /\ UNCHANGED <<objects, backedUp>>
     ELSE \E ok \in BOOLEAN :
       IF ~ok THEN
         /\ SinkDone(p, ErrIO, TRUE)
         /\ UNCHANGED <<objects, backedUp>>
       ELSE
         /\ objects' = Store(objects, ctl[p].key, NewObject(now))
         /\ backedUp' = Remove(backedUp, ctl[p].key)
         /\ snk' = [snk EXCEPT ![p].pc = "copy"]
         /\ ctl' = [ctl EXCEPT ![p].trace = @ \cup {"Put"}]
         /\ UNCHANGED <<pipe, eg>>
  /\ UNCHANGED <<cfg, lockHolder, now, pc, dump, enc, rst>>

\* Local.Put, io.Copy: a Read of the pipe after the write end was closed
\* returns EOF (Put returns nil) or the error it was closed with
SinkEnd(p) ==
  /\ snk[p].pc = "copy"
  /\ pipe[p].werr # Nil
  /\ SinkDone(p, IF pipe[p].werr = EOF THEN Nil ELSE pipe[p].werr, FALSE)
  /\ UNCHANGED <<cfg, lockHolder, objects, now, backedUp, pc, dump, enc, rst>>

\* Local.Put, io.Copy: a write to the file fails
SinkFail(p) ==
  /\ snk[p].pc = "copy"
  /\ SinkDone(p, ErrIO, TRUE)
  /\ UNCHANGED <<cfg, lockHolder, objects, now, backedUp, pc, dump, enc, rst>>


\* ------------------------------------------------- Backup, after the tasks
\* lines 250-255: dumpStream.Wait(). cmd.Wait returns once the subprocess
\* has exited and closes the stdout pipe; file.Close closes the file at once
BackupWait(p) ==
  /\ pc[p] = "b_wait"
  /\ dump[p].state \in {"exited", "file"}
  /\ LET err == dump[p].status
     IN /\ dump' = [dump EXCEPT ![p].rclosed = TRUE, ![p].buf = <<>>]
        /\ pipe' = [pipe EXCEPT ![p] = IF err # Nil THEN CloseWithError(@, err) ELSE @]
        /\ ctl' = [ctl EXCEPT ![p].waitErr = err,
                              ![p].faults = IF err # Nil THEN @ \cup {"wait"} ELSE @,
                              ![p].first = IF @ = Nil THEN err ELSE @]
        /\ pc' = [pc EXCEPT ![p] = "b_egwait"]
  /\ UNCHANGED <<cfg, lockHolder, objects, now, backedUp, enc, snk, eg, rst>>

\* an eg.Wait() whose error is dropped
BackupEgWaitDropsTaskErr(p) ==
  /\ pc[p] = "b_egwait"
  /\ eg[p].running = 0
  /\ IF ctl[p].waitErr # Nil THEN Return(p, ctl[p].waitErr, TRUE, "d_release", {})
     ELSE /\ pc' = [pc EXCEPT ![p] = "b_stat"]
          /\ ctl' = ctl
  /\ UNCHANGED <<cfg, lockHolder, objects, now, backedUp, rst>>
  /\ UNCHANGED Xfer

\* a dumpStream.Wait() whose error is only logged
BackupEgWaitDropsWaitErr(p) ==
  /\ pc[p] = "b_egwait"
  /\ eg[p].running = 0
  /\ IF eg[p].err # Nil THEN Return(p, eg[p].err, TRUE, "d_release", {})
     ELSE /\ pc' = [pc EXCEPT ![p] = "b_stat"]
          /\ ctl' = ctl
  /\ UNCHANGED <<cfg, lockHolder, objects, now, backedUp, rst>>
  /\ UNCHANGED Xfer

\* an eg.Wait() that returns while a task is still running
BackupEgWaitEarly(p) ==
  /\ pc[p] = "b_egwait"
  /\ IF ctl[p].waitErr # Nil THEN Return(p, ctl[p].waitErr, TRUE, "d_release", {})
     ELSE IF eg[p].err # Nil THEN Return(p, eg[p].err, TRUE, "d_release", {})
     ELSE /\ pc' = [pc EXCEPT ![p] = "b_stat"]
          /\ ctl' = ctl
  /\ UNCHANGED <<cfg, lockHolder, objects, now, backedUp, rst>>
  /\ UNCHANGED Xfer

\* lines 252-259: eg.Wait() returns when both tasks have returned
BackupEgWait(p) ==
  /\ pc[p] = "b_egwait"
  /\ eg[p].running = 0
  /\ IF ctl[p].waitErr # Nil THEN Return(p, ctl[p].waitErr, TRUE, "d_release", {})
     ELSE IF eg[p].err # Nil THEN Return(p, eg[p].err, TRUE, "d_release", {})
     ELSE /\ pc' = [pc EXCEPT ![p] = "b_stat"]
          /\ ctl' = ctl
  /\ UNCHANGED <<cfg, lockHolder, objects, now, backedUp, rst>>
  /\ UNCHANGED Xfer

\* Local.Stat / Local.List: the size the backend reports for an object
Size(o) == IF o.man = NoManifest THEN Len(o.data) ELSE 1

\* a Backup that fails when the manifest cannot be written
BackupManifestFatal(p) ==
  /\ pc[p] = "b_stat"
  /\ \E statOk \in BOOLEAN, putOk \in BOOLEAN :
       IF ~statOk \/ ctl[p].key \notin DOMAIN objects THEN
         /\ ~putOk
         /\ Return(p, IF statOk THEN ErrNotFound ELSE ErrIO, TRUE, "d_release", {"Stat"})
         /\ UNCHANGED <<objects, now>>
       ELSE IF ~putOk THEN
         /\ Return(p, ErrIO, TRUE, "d_release", {"Stat", "ManifestPut"})
         /\ UNCHANGED <<objects, now>>
       ELSE
         LET manifest == [Key |-> ctl[p].key, Compression |-> cfg.Compression,
                          Encryption |-> cfg.Encryption,
                          SizeBytes |-> Size(objects[ctl[p].key])]
         IN /\ now' = now
            /\ objects' = Store(objects, ManifestKey(manifest.Key),
                                [data |-> <<>>, man |-> manifest, mod |-> now])
            /\ ctl' = [ctl EXCEPT ![p].trace = @ \cup {"Stat", "ManifestPut"}]
            /\ pc' = [pc EXCEPT ![p] = "b_retention"]
  /\ UNCHANGED <<cfg, lockHolder, backedUp, rst>>
  /\ UNCHANGED Xfer

\* lines 261-283: Storage.Stat (Local.Stat returns ctx.Err() when the
\* context is done), the manifest, writeManifest (its error is only logged)
BackupManifest(p) ==
  /\ pc[p] = "b_stat"
  /\ \E statOk \in BOOLEAN, putOk \in BOOLEAN :
       IF ctl[p].ctxDone THEN
         /\ ~statOk /\ ~putOk
         /\ Return(p, ErrCanceled, TRUE, "d_release", {"Stat"})
         /\ UNCHANGED <<objects, now>>
       ELSE IF ~statOk \/ ctl[p].key \notin DOMAIN objects THEN
         /\ ~putOk
         /\ Return(p, IF statOk THEN ErrNotFound ELSE ErrIO, TRUE, "d_release", {"Stat"})
         /\ UNCHANGED <<objects, now>>
       ELSE
         LET manifest == [Key |-> ctl[p].key, Compression |-> cfg.Compression,
                          Encryption |-> cfg.Encryption,
                          SizeBytes |-> Size(objects[ctl[p].key])]
         IN /\ now' = now
            /\ objects' = IF putOk
                          THEN Store(objects, ManifestKey(manifest.Key),
                                     [data |-> <<>>, man |-> manifest, mod |-> now])
                          ELSE objects
            /\ ctl' = [ctl EXCEPT ![p].trace = @ \cup {"Stat", "ManifestPut"},
                                  ![p].swallowed = IF putOk THEN @ ELSE @ \cup {"ManifestPut"}]
            /\ pc' = [pc EXCEPT ![p] = "b_retention"]
  /\ UNCHANGED <<cfg, lockHolder, backedUp, rst>>
  /\ UNCHANGED Xfer

\* ------------------------------------------------------------- retention
Policies == [KeepLast : 0..MaxKeep, KeepDays : 0..MaxKeep, MaxBytes : 0..MaxKeep]

\* Storage.List. Local.List walks the directory of the prefix; S3.List
\* asks for the keys that start with the prefix
List(objs, prefix) ==
  {k \in DOMAIN objs :
     IF cfg.Backend = "s3" THEN StringHasPrefix(k, prefix)
     ELSE HasPrefix(k, IF prefix = <<".">> THEN <<>> ELSE prefix)}

\* sort.Slice by Modified, newest first: every order the comparison
\* allows, objects of equal Modified in any order
RECURSIVE SortedNewestFirst(_, _)
SortedNewestFirst(objs, ks) ==
  IF ks = {} THEN {<<>>}
  ELSE UNION {{<<k>> \o s : s \in SortedNewestFirst(objs, ks \ {k})} :
                k \in {x \in ks : \A y \in ks : objs[y].mod <= objs[x].mod}}

RECURSIVE SumSizes(_, _)
SumSizes(objs, ks) ==
  IF ks = {} THEN 0
  ELSE LET k == CHOOSE x \in ks : TRUE
       IN Size(objs[k]) + SumSizes(objs, ks \ {k})

\* a walk that never reduces the running total
RECURSIVE RetentionWalkKeepsTotal(_, _, _, _, _, _)
RetentionWalkKeepsTotal(objs, s, i, totalSize, policy, cutoff) ==
  IF i > Len(s) THEN {}
  ELSE LET obj == objs[s[i]]
           keep == \/ (policy.KeepLast > 0 /\ i - 1 < policy.KeepLast)
                   \/ (policy.KeepDays > 0 /\ obj.mod > cutoff)
                   \/ (policy.MaxBytes > 0 /\ totalSize <= policy.MaxBytes)
       IN IF keep
          THEN RetentionWalkKeepsTotal(objs, s, i + 1, totalSize, policy, cutoff)
          ELSE {s[i]} \cup
               RetentionWalkKeepsTotal(objs, s, i + 1, totalSize, policy, cutoff)

\* applyRetention, lines 450-463: the walk over the sorted backups; the
\* result is the set of keys it calls Delete on
RECURSIVE RetentionWalk(_, _, _, _, _, _)
RetentionWalk(objs, s, i, totalSize, policy, cutoff) ==
  IF i > Len(s) THEN {}
  ELSE LET obj == objs[s[i]]
           keep == \/ (policy.KeepLast > 0 /\ i - 1 < policy.KeepLast)
                   \/ (policy.KeepDays > 0 /\ obj.mod > cutoff)
                   \/ (policy.MaxBytes > 0 /\ totalSize <= policy.MaxBytes)
       IN IF keep
          THEN RetentionWalk(objs, s, i + 1, totalSize, policy, cutoff)
          ELSE {s[i]} \cup
               RetentionWalk(objs, s, i + 1, totalSize - Size(obj), policy, cutoff)

\* applyRetention, lines 427-463: the keys of the listing sorted as s that
\* it calls Delete on, at clock reading t
Deletes(objs, s, policy, t) ==
  IF policy.KeepDays = 0 /\ policy.KeepLast = 0 /\ policy.MaxBytes = 0 THEN {}
  ELSE RetentionWalk(objs, s, 1, SumSizes(objs, {s[i] : i \in DOMAIN s}),
                     policy, t - policy.KeepDays)

\* the Delete calls of the walk: each key of ks, then its manifest key
DeleteCalls(ks) == ks \cup {ManifestKey(k) : k \in ks}

\* Storage.Delete for each call of the walk on ks; the calls of failed
\* return an error and remove nothing (a Delete of a key with no object
\* removes nothing either)
DeleteAll(objs, ks, failed) ==
  [k \in DOMAIN objs \ (DeleteCalls(ks) \ failed) |-> objs[k]]

\* lines 285-287: applyRetention (its error is dropped), then the
\* successful return
BackupRetention(p) ==
  /\ pc[p] = "b_retention"
  /\ \E policy \in Policies, listOk \in BOOLEAN, t \in now..MaxTime :
       LET done(objs, calls, dropped) ==
             /\ objects' = objs
             /\ backedUp' = [k \in (DOMAIN backedUp \cup {ctl[p].key}) \cap DOMAIN objs |->
                               IF k = ctl[p].key THEN ctl[p].data ELSE backedUp[k]]
             /\ ctl' = [ctl EXCEPT ![p].ret = Nil,
                                   ![p].trace = @ \cup calls,
                                   ![p].swallowed = @ \cup dropped]
             /\ pc' = [pc EXCEPT ![p] = "d_release"]
       IN IF policy.KeepDays = 0 /\ policy.KeepLast = 0 /\ policy.MaxBytes = 0 THEN
            /\ listOk /\ t = now
            /\ now' = now
            /\ done(objects, {}, {})
          ELSE IF ~listOk THEN
            /\ t = now
            /\ now' = now
            /\ done(objects, {"List"}, {"List"})
          ELSE
            /\ now' = t
            /\ LET backups == {k \in List(objects, BuildPrefix(cfg.Prefix, cfg.DBType, cfg.DBName)) :
                                 ~IsManifest(k)}
               IN \E s \in SortedNewestFirst(objects, backups) :
                    LET dels == Deletes(objects, s, policy, t)
                    IN \E failed \in SUBSET (DeleteCalls(dels) \cap DOMAIN objects) :
                         done(DeleteAll(objects, dels, failed),
                              IF dels = {} THEN {"List"} ELSE {"List", "Delete"},
                              IF failed = {} THEN {} ELSE {"Delete"})
  /\ UNCHANGED <<cfg, lockHolder, rst>>
  /\ UNCHANGED Xfer

\* --------------------------------------------------------- deferred calls
\* the deferred dumpStream.Reader.Close() and guard.Release(); the tasks
\* have returned and the pipe and the group are no longer referenced, and
\* the errors that Backup dropped are gone with their calls
DeferRelease(p) ==
  /\ pc[p] = "d_release"
  /\ lockHolder' = Release(p)
  /\ ctl' = [ctl EXCEPT ![p].held = FALSE, ![p].swallowed = {},
                        ![p].clock = NoClock,
                        ![p].waitErr = Nil, ![p].first = Nil, ![p].ctxDone = FALSE,
                        ![p].backupType = "", ![p].data = <<>>]
  /\ dump' = [dump EXCEPT ![p] = IF dump[p].state # "none"
                                  THEN [DumpInit EXCEPT !.state = "closed", !.rclosed = TRUE]
                                  ELSE @]
  /\ enc' = [enc EXCEPT ![p] = EncInit]
  /\ snk' = [snk EXCEPT ![p] = SnkInit]
  /\ pipe' = [pipe EXCEPT ![p] = PipeInit]
  /\ eg' = [eg EXCEPT ![p] = EgInit]
  /\ pc' = [pc EXCEPT ![p] = "d_notify"]
  /\ UNCHANGED <<cfg, objects, now, backedUp, rst>>

\* a notification sent only for an invocation that got the lock
DeferNotifyAfterLock(p) ==
  /\ pc[p] = "d_notify"
  /\ \E notifier \in BOOLEAN :
       ctl' = [ctl EXCEPT
         ![p].notifier = notifier,
         ![p].notifs = IF notifier /\ ctl[p].ret # ErrLocked
                       THEN Append(@, [Status |-> statusFromErr(ctl[p].opErr),
                                       Error |-> ctl[p].opErr])
                       ELSE @,
         ![p].opErr = Nil, ![p].waitErr = Nil, ![p].backupType = "",
         ![p].data = <<>>]
  /\ pc' = [pc EXCEPT ![p] = "returned"]
  /\ dump' = [dump EXCEPT ![p] = DumpInit]
  /\ UNCHANGED <<cfg, lockHolder, objects, now, backedUp, enc, snk, pipe, eg, rst>>

\* the deferred notification, lines 122-141 and 293-312; whether Notify
\* delivered the event or returned an error changes nothing (line 140
\* drops the error); then the invocation has returned and its locals are
\* gone
DeferNotify(p) ==
  /\ pc[p] = "d_notify"
  /\ \E notifier \in BOOLEAN, delivered \in BOOLEAN :
       /\ ~notifier => delivered
       /\ ctl' = [ctl EXCEPT
         ![p].notifier = notifier,
         ![p].notifs = IF notifier
                       THEN Append(@, [Status |-> statusFromErr(ctl[p].opErr),
                                       Error |-> ctl[p].opErr])
                       ELSE @,
         ![p].opErr = Nil, ![p].waitErr = Nil, ![p].backupType = "",
         ![p].data = <<>>]
  /\ pc' = [pc EXCEPT ![p] = "returned"]
  /\ dump' = [dump EXCEPT ![p] = DumpInit]
  /\ UNCHANGED <<cfg, lockHolder, objects, now, backedUp, enc, snk, pipe, eg, rst>>

\* the command that ran the invocation ends (cmd/dbu main): Backup or
\* Restore returned and util.Retry, if it is not out of attempts, found
\* the context done
Exit(p) ==
  /\ pc[p] = "returned"
  /\ pc' = [pc EXCEPT ![p] = "exited"]
  /\ ctl' = [ctl EXCEPT ![p] = CtlInit]
  /\ rst' = [rst EXCEPT ![p] = RstInit]
  /\ UNCHANGED <<cfg, lockHolder, objects, now, backedUp>>
  /\ UNCHANGED Xfer

\* util.Retry, lines 83-94, for the backup command: fn returned an error,
\* the backoff has elapsed and the loop has attempts left, so Backup is
\* invoked again
RetryAgain(p) ==
  /\ pc[p] = "returned"
  /\ ctl[p].op = "backup"
  /\ cfg.RetryCount > 1
  /\ ctl[p].ret # Nil
  /\ ctl[p].calls < cfg.RetryCount
  /\ pc' = [pc EXCEPT ![p] = "idle"]
  /\ ctl' = [ctl EXCEPT ![p] = [CtlInit EXCEPT !.calls = ctl[p].calls,
                                              !.waits = ctl[p].waits + 1,
                                              !.retried = ctl[p].retried \cup {ctl[p].ret}]]
  /\ UNCHANGED <<cfg, lockHolder, objects, now, backedUp, rst>>
  /\ UNCHANGED Xfer

\* util.Retry, lines 89-95: the last attempt returned an error; the select
\* waits the backoff once more before the loop ends and Retry returns the
\* error
RetryLastBackoff(p) ==
  /\ pc[p] = "returned"
  /\ ctl[p].op = "backup"
  /\ cfg.RetryCount > 1
  /\ ctl[p].ret # Nil
  /\ ctl[p].calls = cfg.RetryCount
  /\ ctl[p].waits < ctl[p].calls
  /\ ctl' = [ctl EXCEPT ![p].waits = @ + 1]
  /\ UNCHANGED <<cfg, lockHolder, objects, now, backedUp, pc, rst>>
  /\ UNCHANGED Xfer

\* --------------------------------------------------------------- Restore
\* the keys a restore command may name: a stored artifact, or a key at
\* which nothing is stored
MissingKey == BuildObjectKey(cfg.Prefix, cfg.DBType, cfg.DBName, "full", 0, "lost")

RestoreKeys == {k \in DOMAIN objects : ~IsManifest(k)} \cup {MissingKey}

\* Restore, lines 290-319: the notification defer, then lock.Acquire
RestoreAcquire(p) ==
  /\ pc[p] = "idle"
  /\ \E k \in RestoreKeys :
       IF Acquire(p)
       THEN /\ lockHolder' = p
            /\ ctl' = [ctl EXCEPT ![p] = [CtlInit EXCEPT !.op = "restore", !.key = k,
                                          !.acquires = 1, !.held = TRUE]]
            /\ pc' = [pc EXCEPT ![p] = "r_validate"]
       ELSE /\ lockHolder' = lockHolder
            /\ ctl' = [ctl EXCEPT ![p] = [CtlInit EXCEPT !.op = "restore", !.key = k,
                                          !.acquires = 1, !.opErr = ErrLocked,
                                          !.ret = ErrLocked]]
            /\ pc' = [pc EXCEPT ![p] = "d_notify"]
  /\ UNCHANGED <<cfg, objects, now, backedUp, rst>>
  /\ UNCHANGED Xfer

\* readManifest: Storage.Get of the manifest key and the JSON decode; any
\* failure yields the empty manifest
readManifest(objs, k, readable) ==
  IF ManifestKey(k) \in DOMAIN objs /\ readable
  THEN objs[ManifestKey(k)].man
  ELSE NoManifest

\* a Restore that goes on to the artifact although dry-run is set
RestoreValidateIgnoresDryRun(p) ==
  /\ pc[p] = "r_validate"
  /\ \E ok \in BOOLEAN, readable \in BOOLEAN, dryRun \in BOOLEAN :
       IF ~ok THEN
         /\ ~readable /\ ~dryRun
         /\ ctl' = [ctl EXCEPT ![p].ret = ErrValidate, ![p].opErr = ErrValidate,
                               ![p].trace = @ \cup {"Validate"},
                               ![p].faults = @ \cup {"env"}]
         /\ pc' = [pc EXCEPT ![p] = "d_release"]
         /\ rst' = rst
       ELSE
         /\ rst' = [rst EXCEPT ![p].manifest = readManifest(objects, ctl[p].key, readable)]
         /\ ctl' = [ctl EXCEPT ![p].trace = @ \cup {"Validate", "GetManifest"},
                               ![p].dryRun = dryRun]
         /\ pc' = [pc EXCEPT ![p] = "r_get"]
  /\ UNCHANGED <<cfg, lockHolder, objects, now, backedUp>>
  /\ UNCHANGED Xfer

\* Restore, lines 321-330: Adapter.Validate, readManifest, the dry run
RestoreValidate(p) ==
  /\ pc[p] = "r_validate"
  /\ \E ok \in BOOLEAN, readable \in BOOLEAN, dryRun \in BOOLEAN :
       IF ~ok THEN
         /\ ~readable /\ ~dryRun
         /\ ctl' = [ctl EXCEPT ![p].ret = ErrValidate, ![p].opErr = ErrValidate,
                               ![p].trace = @ \cup {"Validate"},
                               ![p].faults = @ \cup {"env"}]
         /\ pc' = [pc EXCEPT ![p] = "d_release"]
         /\ rst' = rst
       ELSE
         /\ rst' = [rst EXCEPT ![p].manifest = readManifest(objects, ctl[p].key, readable)]
         /\ ctl' = [ctl EXCEPT ![p].trace = @ \cup {"Validate", "GetManifest"},
                               ![p].dryRun = dryRun,
                               ![p].ret = IF dryRun THEN Nil ELSE @]
         /\ pc' = [pc EXCEPT ![p] = IF dryRun THEN "d_release" ELSE "r_get"]
  /\ UNCHANGED <<cfg, lockHolder, objects, now, backedUp>>
  /\ UNCHANGED Xfer

ErrTruncated == "unexpected EOF"

\* What a reading layer (sio.DecryptReader, gzip.Reader, zstd.Decoder)
\* yields from the stream below it: the items it unwrapped, and the error
\* at which it stopped (Nil when it saw its final block). in.err is the
\* error the stream below ends with.
RECURSIVE UnwrapFrom(_, _, _)
UnwrapFrom(tag, in, i) ==
  IF i > Len(in.data) THEN
    [data |-> <<>>, err |-> IF in.err # Nil THEN in.err ELSE ErrTruncated]
  ELSE LET item == in.data[i]
       IN IF Len(item) < 2 \/ item[1] # tag THEN
            [data |-> <<>>, err |-> IF tag = EncTag THEN ErrDecrypt ELSE ErrDecompress]
          ELSE IF Tail(item) = <<EndMark>> THEN
            [data |-> <<>>, err |-> Nil]
          ELSE LET rest == UnwrapFrom(tag, in, i + 1)
               IN [data |-> <<Tail(item)>> \o rest.data, err |-> rest.err]

\* cryptoutil.DecryptReader
DecryptReader(in) == UnwrapFrom(EncTag, in, 1)

\* the stream a reader made by compress.WrapReader yields
Decompress(kind, in) ==
  IF kind = "" \/ kind = TypeNone THEN in ELSE UnwrapFrom(CompTag(kind), in, 1)

\* compress.WrapReader: gzip.NewReader reads the header at once, the other
\* readers read nothing until the first Read
WrapReaderErr(kind, in) ==
  IF kind \notin {"", TypeNone, TypeGzip, TypeZstd} THEN ErrCompression
  ELSE IF kind # TypeGzip THEN Nil
  ELSE IF in.data = <<>> THEN (IF in.err # Nil THEN in.err ELSE EOF)
  ELSE IF Len(in.data[1]) < 2 \/ in.data[1][1] # CompTag(kind) THEN ErrDecompress
  ELSE Nil

\* Restore, lines 339-361: the read-side chain over the stored bytes
ReadChain(c, manifest, stored) ==
  LET raw == [data |-> stored, err |-> Nil]
      encrypted == manifest.Encryption \/ c.Encryption
      payload == IF encrypted THEN DecryptReader(raw) ELSE raw
      compression == IF manifest.Compression = "" THEN c.Compression
                     ELSE manifest.Compression
  IN [keyErr |-> IF ~encrypted THEN Nil
                 ELSE IF c.EncryptionKey = "" THEN ErrNoRestoreKey
                 ELSE ParseKey(c.EncryptionKey).err,
      wrapErr |-> WrapReaderErr(compression, payload),
      out |-> Decompress(compression, payload)]

\* the producer bytes carried by fully unwrapped items
Payloads(items) == [i \in DOMAIN items |-> items[i][Len(items[i])]]

\* Restore, lines 332-372: Storage.Get, the read-side chain, Adapter.Restore
RestoreOpen(p) ==
  /\ pc[p] = "r_get"
  /\ \E getOk \in BOOLEAN, startOk \in BOOLEAN :
       LET k == ctl[p].key
           chain == ReadChain(cfg, rst[p].manifest, objects[k].data)
           fail(err, calls, env) ==
             /\ ~startOk
             /\ ctl' = [ctl EXCEPT ![p].ret = err, ![p].opErr = err,
                                   ![p].trace = @ \cup calls,
                                   ![p].faults = IF env THEN @ \cup {"env"} ELSE @]
             /\ pc' = [pc EXCEPT ![p] = "d_release"]
             /\ rst' = rst
       IN IF k \notin DOMAIN objects THEN getOk /\ fail(ErrNotFound, {"Get"}, FALSE)
          ELSE IF ~getOk THEN fail(ErrIO, {"Get"}, TRUE)
          ELSE IF chain.keyErr # Nil THEN fail(chain.keyErr, {"Get"}, FALSE)
          ELSE IF chain.wrapErr # Nil THEN fail(chain.wrapErr, {"Get"}, FALSE)
          ELSE IF ~startOk THEN
            /\ ctl' = [ctl EXCEPT ![p].ret = ErrIO, ![p].opErr = ErrIO,
                                  ![p].trace = @ \cup {"Get", "AdapterRestore"},
                                  ![p].faults = @ \cup {"env"}]
            /\ pc' = [pc EXCEPT ![p] = "d_release"]
            /\ rst' = rst
          ELSE
            /\ ctl' = [ctl EXCEPT ![p].trace = @ \cup {"Get", "AdapterRestore"}]
            /\ rst' = [rst EXCEPT ![p].stream = objects[k].data,
                                  ![p].consumer = "running"]
            /\ pc' = [pc EXCEPT ![p] = "r_copy"]
  /\ UNCHANGED <<cfg, lockHolder, objects, now, backedUp>>
  /\ UNCHANGED Xfer

\* Restore, lines 374-387: io.Copy into the consumer, Writer.Close, Wait
RestoreCopy(p) ==
  /\ pc[p] = "r_copy"
  /\ LET out == ReadChain(cfg, rst[p].manifest, rst[p].stream).out
     IN \E closeOk \in BOOLEAN, waitOk \in BOOLEAN :
          IF out.err # Nil THEN
            /\ closeOk /\ waitOk
            /\ rst' = [rst EXCEPT ![p].received = Payloads(out.data)]
            /\ Return(p, out.err, TRUE, "d_release", {})
          ELSE IF ~closeOk THEN
            /\ waitOk
            /\ rst' = [rst EXCEPT ![p].received = Payloads(out.data)]
            /\ ctl' = [ctl EXCEPT ![p].ret = ErrIO, ![p].opErr = ErrIO,
                                  ![p].faults = @ \cup {"env"}]
            /\ pc' = [pc EXCEPT ![p] = "d_release"]
          ELSE IF ~waitOk THEN
            /\ rst' = [rst EXCEPT ![p].received = Payloads(out.data),
                                  ![p].consumer = "closed"]
            /\ ctl' = [ctl EXCEPT ![p].ret = ErrWait, ![p].opErr = ErrWait,
                                  ![p].faults = @ \cup {"env"}]
            /\ pc' = [pc EXCEPT ![p] = "d_release"]
          ELSE
            /\ rst' = [rst EXCEPT ![p].received = Payloads(out.data),
                                  ![p].consumer = "waited"]
            /\ Return(p, Nil, FALSE, "d_release", {})
  /\ UNCHANGED <<cfg, lockHolder, objects, now, backedUp>>
  /\ UNCHANGED Xfer

BackupNext(p) ==
  \/ BackupWindow(p) \/ BackupValidate(p) \/ BackupExists(p)
  \/ BackupDump(p) \/ BackupWait(p) \/ BackupEgWait(p) \/ BackupManifest(p)
  \/ BackupRetention(p)

ProdNext(p) == ProdWrite(p) \/ ProdExit(p) \/ ProdCrash(p)

EncodeNext(p) == EncSetup(p) \/ EncRead(p) \/ EncWrite(p) \/ EncClose(p)

SinkNext(p) == SinkStart(p) \/ SinkEnd(p) \/ SinkFail(p)

RestoreNext(p) == RestoreValidate(p) \/ RestoreOpen(p) \/ RestoreCopy(p)

\* the steps of an invocation after its lock.Acquire
Body(p) ==
  BackupNext(p) \/ ProdNext(p) \/ EncodeNext(p) \/ SinkNext(p) \/ RestoreNext(p)
  \/ DeferRelease(p) \/ DeferNotify(p) \/ Exit(p)

\* The commands are started in this order: a command is started once the
\* one before it has ended, or while the one before it holds the lock.
Script == <<"p1", "p2">>

Turn(p) ==
  \A i, j \in DOMAIN Script :
    (i < j /\ Script[j] = p) => (pc[Script[i]] = "exited" \/ lockHolder = Script[i])

Next ==
  \E p \in Procs :
    \/ Turn(p) /\ (BackupAcquire(p) \/ RestoreAcquire(p))
    \/ Body(p)

Spec == Init /\ [][Next]_vars

\* The commands are started at any time, by concurrent processes; the
\* database is a file (SQLiteAdapter), stored as it is.
ConcConfigs ==
  {c \in Configs : c.Adapter = "file" /\ c.Compression = TypeNone /\ ~c.Encryption}

InitConc == Init /\ cfg \in ConcConfigs

NextConc ==
  \E p \in Procs :
    \/ BackupAcquire(p) \/ RestoreAcquire(p)
    \/ BackupNext(p) \/ EncodeNext(p) \/ SinkNext(p) \/ RestoreNext(p)
    \/ DeferRelease(p) \/ DeferNotify(p) \/ Exit(p)

SpecConc == InitConc /\ [][NextConc]_vars

\* One Backup run to its return, with no operation timeout. Every
\* goroutine that can take a step takes one in the end, and so does the
\* dump subprocess; the failures of the environment (ProdCrash, SinkFail)
\* may or may not happen.
Runner == "p1"

Controller ==
  BackupAcquire(Runner) \/ BackupNext(Runner) \/ DeferRelease(Runner)
  \/ DeferNotify(Runner)

LiveNext ==
  Controller \/ ProdNext(Runner) \/ EncodeNext(Runner) \/ SinkNext(Runner)

LiveFair ==
  /\ WF_vars(Controller)
  /\ WF_vars(EncodeNext(Runner))
  /\ WF_vars(SinkStart(Runner) \/ SinkEnd(Runner))
  /\ WF_vars(ProdWrite(Runner) \/ ProdExit(Runner))

SpecLive == Init /\ [][LiveNext]_vars /\ LiveFair

\* One retention pass over a store that earlier runs have filled. The
\* Backup of p1 has stored its artifact and written (or failed to write)
\* its manifest, and is about to call applyRetention; the store also holds
\* older artifacts of the database and may hold one of a database whose
\* name starts with the name of this one.
RetainConfigs ==
  {c \in [Compression : {TypeNone}, Encryption : {FALSE}, EncryptionKey : {""},
          Adapter : {"file"}, Prefix : {Prefix}, DBType : {DBType},
          DBName : {DBName}, Backend : {"local", "s3"}, RetryCount : {1},
          Schedule : {DaySchedule}] : TRUE}

OwnKey(w) == BuildObjectKey(Prefix, DBType, DBName, "full", w, buildExtension(TypeNone, FALSE))

SiblingKey ==
  BuildObjectKey(Prefix, DBType, SiblingName, "full", 0, buildExtension(TypeNone, FALSE))

StoredKeys == {OwnKey(w) : w \in 0..MaxTime} \cup {SiblingKey}

\* what is stored at a key: nothing, or an artifact of one or two bytes
\* with or without its manifest. An artifact of this database was last
\* written at the time in its key.
Slots(k) ==
  {c \in [present : BOOLEAN, mod : 0..MaxTime, size : 1..2, man : BOOLEAN] :
     /\ ~c.present => (c.mod = 0 /\ c.size = 1 /\ ~c.man)
     /\ (c.present /\ k # SiblingKey) => c.mod = k[Len(k)][1]}

\* the objects Put and writeManifest leave for the choice ch
StoreOf(ch) ==
  LET arts == {k \in StoredKeys : ch[k].present}
      mans == {k \in arts : ch[k].man}
      dataOf(k) == [i \in 1..ch[k].size |-> Raw(Source[i])]
  IN [k \in arts \cup {ManifestKey(a) : a \in mans} |->
        IF k \in arts
        THEN [data |-> dataOf(k), man |-> NoManifest, mod |-> ch[k].mod]
        ELSE LET a == SubSeq(k, 1, Len(k) - 1)
             IN [data |-> <<>>,
                 man |-> [Key |-> a, Compression |-> TypeNone, Encryption |-> FALSE,
                          SizeBytes |-> ch[a].size],
                 mod |-> ch[a].mod]]

InitRetain ==
  /\ cfg \in RetainConfigs
  /\ now = MaxTime
  /\ \E ch \in [StoredKeys -> UNION {Slots(k) : k \in StoredKeys}] :
       /\ \A k \in StoredKeys : ch[k] \in Slots(k)
       /\ ch[OwnKey(MaxTime)].present
       /\ objects = StoreOf(ch)
  /\ lockHolder = Runner
  /\ backedUp = <<>>
  /\ pc = [p \in Procs |-> IF p = Runner THEN "b_retention" ELSE "idle"]
  /\ LET key == OwnKey(MaxTime)
         data == Payloads(objects[key].data)
     IN /\ ctl = [p \in Procs |->
                   IF p # Runner THEN CtlInit
                   ELSE [CtlInit EXCEPT !.op = "backup", !.acquires = 1, !.held = TRUE,
                                        !.key = key, !.backupType = "full", !.data = data,
                                        !.calls = 1,
                                        !.trace = {"Validate", "Dump", "Put", "Stat",
                                                   "ManifestPut"}]]
        /\ dump = [p \in Procs |->
                    IF p # Runner THEN DumpInit
                    ELSE [Dump("file", data) EXCEPT !.sent = Len(data), !.rclosed = TRUE]]
  /\ enc = [p \in Procs |->
              IF p # Runner THEN EncInit ELSE [EncInit EXCEPT !.pc = "done", !.ci = 1, !.ret = Nil]]
  /\ snk = [p \in Procs |->
              IF p # Runner THEN SnkInit ELSE [SnkInit EXCEPT !.pc = "done", !.ret = Nil]]
  /\ pipe = [p \in Procs |->
               IF p # Runner THEN PipeInit ELSE [rclosed |-> TRUE, werr |-> EOF]]
  /\ eg = [p \in Procs |-> EgInit]
  /\ rst = [p \in Procs |-> RstInit]

RetainNext ==
  BackupRetention(Runner) \/ DeferRelease(Runner) \/ DeferNotify(Runner)

SpecRetain == InitRetain /\ [][RetainNext]_vars

\* One Backup of a file database under every way of naming it: prefix,
\* database type and database name as a configuration file may give them.
PrefixInputs == {"", "/", Prefix, "/" \o Prefix \o "/"}

DBTypeInputs == {"", ".", DBType}

DBNameInputs == {"", ".", "..", DBName}

KeyConfigs ==
  {c \in [Compression : {TypeNone}, Encryption : {FALSE}, EncryptionKey : {""},
          Adapter : {"file"}, Prefix : PrefixInputs, DBType : DBTypeInputs,
          DBName : DBNameInputs, Backend : {"local", "s3"}, RetryCount : {1},
          Schedule : {DaySchedule}] : TRUE}

InitKeys ==
  /\ cfg \in KeyConfigs
  /\ lockHolder = "none"
  /\ objects = <<>>
  /\ now = 0
  /\ backedUp = <<>>
  /\ pc = [p \in Procs |-> "idle"]
  /\ ctl = [p \in Procs |-> CtlInit]
  /\ dump = [p \in Procs |-> DumpInit]
  /\ enc = [p \in Procs |-> EncInit]
  /\ snk = [p \in Procs |-> SnkInit]
  /\ pipe = [p \in Procs |-> PipeInit]
  /\ eg = [p \in Procs |-> EgInit]
  /\ rst = [p \in Procs |-> RstInit]

KeysNext == Controller \/ EncodeNext(Runner) \/ SinkNext(Runner)

SpecKeys == InitKeys /\ [][KeysNext]_vars

\* One Backup under the configurations a file may hold unchecked: a
\* compression identifier that is not known, a key that does not parse.
UncheckedConfigs ==
  {c \in [Compression : {TypeNone, TypeGzip, UnknownCompression},
          Encryption : BOOLEAN,
          EncryptionKey : KeyValues,
          Adapter : {"process", "file"},
          Prefix : {Prefix},
          DBType : {DBType},
          DBName : {DBName},
          Backend : {"local"}, RetryCount : {1},
          Schedule : {DaySchedule}] :
     ~c.Encryption => c.EncryptionKey = ""}

InitUnchecked ==
  /\ cfg \in UncheckedConfigs
  /\ lockHolder = "none"
  /\ objects = <<>>
  /\ now = 0
  /\ backedUp = <<>>
  /\ pc = [p \in Procs |-> "idle"]
  /\ ctl = [p \in Procs |-> CtlInit]
  /\ dump = [p \in Procs |-> DumpInit]
  /\ enc = [p \in Procs |-> EncInit]
  /\ snk = [p \in Procs |-> SnkInit]
  /\ pipe = [p \in Procs |-> PipeInit]
  /\ eg = [p \in Procs |-> EgInit]
  /\ rst = [p \in Procs |-> RstInit]

SpecUnchecked == InitUnchecked /\ [][LiveNext]_vars

\* One backup command of a file database with retry_count attempts, under
\* the configurations a file may hold unchecked.
RetryConfigs ==
  {c \in [Compression : {TypeNone, UnknownCompression},
          Encryption : BOOLEAN,
          EncryptionKey : KeyValues,
          Adapter : {"file"},
          Prefix : {Prefix},
          DBType : {DBType},
          DBName : {DBName},
          Backend : {"local"},
          RetryCount : 1..MaxRetry,
          Schedule : {DaySchedule}] :
     ~c.Encryption => c.EncryptionKey = ""}

InitRetry ==
  /\ cfg \in RetryConfigs
  /\ lockHolder = "none"
  /\ objects = <<>>
  /\ now = 0
  /\ backedUp = <<>>
  /\ pc = [p \in Procs |-> "idle"]
  /\ ctl = [p \in Procs |-> CtlInit]
  /\ dump = [p \in Procs |-> DumpInit]
  /\ enc = [p \in Procs |-> EncInit]
  /\ snk = [p \in Procs |-> SnkInit]
  /\ pipe = [p \in Procs |-> PipeInit]
  /\ eg = [p \in Procs |-> EgInit]
  /\ rst = [p \in Procs |-> RstInit]

RetryNext ==
  \/ Controller \/ EncodeNext(Runner) \/ SinkNext(Runner)
  \/ RetryAgain(Runner) \/ RetryLastBackoff(Runner) \/ Exit(Runner)

SpecRetry == InitRetry /\ [][RetryNext]_vars

\* ------------------------------------------------------------- properties
Enabled(kind) == kind # "" /\ kind # TypeNone

\* the stream a compression layer writes for the stream written to it
Compress(kind, stream) ==
  IF ~Enabled(kind) THEN stream
  ELSE [i \in DOMAIN stream |-> Wrap(CompTag(kind), stream[i])] \o
       <<<<CompTag(kind), EndMark>>>>

\* the stream the encryption layer writes for the stream written to it
Encrypt(stream) ==
  [i \in DOMAIN stream |-> Wrap(EncTag, stream[i])] \o <<<<EncTag, EndMark>>>>

Raws(data) == [i \in DOMAIN data |-> Raw(data[i])]

Done(p) == pc[p] \in {"d_release", "d_notify", "returned"}

WriteCalls == {"Stat", "ManifestPut", "List", "Delete"}

\* C1: a Restore of the key of a successful Backup, under the same
\* configuration, that got the lock and met no failure of a collaborator,
\* returns nil and has delivered to the consumer exactly the bytes the
\* producer emitted.
RoundTrip ==
  \A p \in Procs :
    (/\ Returned(p)
     /\ ctl[p].op = "restore"
     /\ ctl[p].ret # ErrLocked
     /\ ~ctl[p].dryRun
     /\ ctl[p].key \in DOMAIN backedUp
     /\ ctl[p].faults = {})
    => (ctl[p].ret = Nil /\ rst[p].received = backedUp[ctl[p].key])

\* C2: with compression and encryption both enabled, the object a
\* successful Backup stored is encrypt(compress(producer bytes)).
CompressThenEncrypt ==
  \A k \in DOMAIN backedUp :
    (cfg.Encryption /\ Enabled(cfg.Compression) /\ k \in DOMAIN objects)
    => objects[k].data = Encrypt(Compress(cfg.Compression, Raws(backedUp[k])))

\* C3: once Storage.Put has failed, the read end of the pipe is closed so
\* that no write on it succeeds, Backup does not return nil, it issues no
\* Stat, manifest write, List or Delete, and no notification says success.
SinkFailurePropagates ==
  \A p \in Procs :
    "sink" \in ctl[p].faults =>
      /\ pc[p] \in {"b_wait", "b_egwait"} => pipe[p].rclosed
      /\ pc[p] \notin {"b_stat", "b_retention"}
      /\ ctl[p].ret # Nil
      /\ Done(p) => ctl[p].ret # Pending
      /\ ctl[p].trace \cap WriteCalls = {}
      /\ \A i \in DOMAIN ctl[p].notifs : ctl[p].notifs[i].Status = "failed"

SinkFailureReturned ==
  \E p \in Procs :
    /\ Returned(p)
    /\ "sink" \in ctl[p].faults
    /\ ctl[p].ret = ErrIO
    /\ Len(ctl[p].notifs) = 1

\* C4: once the sink task or the encode task has failed, Backup returns
\* an error in the end.
TaskFailureReturns ==
  \A p \in Procs :
    (ctl[p].faults \cap {"sink", "encode"} # {})
    ~> (Returned(p) /\ ctl[p].ret \notin {Nil, Pending})

\* C5: once dumpStream.Wait has returned an error, Backup returns that
\* error, issues no Stat, manifest write, List or Delete, and its
\* notification says failed.
WaitFailureFailsBackup ==
  \A p \in Procs :
    "wait" \in ctl[p].faults =>
      /\ pc[p] \notin {"b_stat", "b_retention"}
      /\ ctl[p].ret \in {Pending, ErrWait}
      /\ Done(p) => ctl[p].ret = ErrWait
      /\ ctl[p].trace \cap WriteCalls = {}
      /\ \A i \in DOMAIN ctl[p].notifs :
           ctl[p].notifs[i] = [Status |-> "failed", Error |-> ErrWait]

WaitFailedTasksFine ==
  \E p \in Procs :
    /\ pc[p] = "d_release"
    /\ "wait" \in ctl[p].faults
    /\ enc[p].ret = Nil
    /\ snk[p].ret = Nil
    /\ eg[p].err = Nil
    /\ ctl[p].ret = ErrWait

\* C6: at most one invocation is between its successful lock.Acquire and
\* its Release; an invocation whose Acquire finds the lock held goes
\* straight to its return with the lock error, having called neither the
\* adapter nor storage, and Acquire fails only when another holds the lock.
Holders == {p \in Procs : ctl[p].held}

Starts(p) == pc[p] = "idle" /\ pc'[p] # "idle"

LockExcludes ==
  /\ [](/\ Cardinality(Holders) <= 1
        /\ \A p \in Procs : ctl[p].held => lockHolder = p
        /\ \A p \in Procs :
             ctl[p].ret = ErrLocked =>
               /\ ~ctl[p].held
               /\ ctl[p].trace = {}
               /\ pc[p] \in {"d_notify", "returned"})
  /\ [][\A p \in Procs :
          Starts(p) =>
            IF Holders = {}
            THEN ctl'[p].held /\ ctl'[p].ret = Pending
            ELSE ~ctl'[p].held /\ ctl'[p].ret = ErrLocked /\ pc'[p] = "d_notify"]_vars

Contended ==
  \E p, q \in Procs :
    /\ ctl[p].held
    /\ ctl[p].trace # {}
    /\ ctl[q].ret = ErrLocked
    /\ Returned(q)

\* C7: an invocation calls lock.Acquire once; when it returns it no longer
\* holds the lock, whatever its exit path, and the lock is free whenever
\* no invocation is between its Acquire and its Release.
Released(p) == pc[p] \in {"idle", "d_notify", "returned", "exited"}

LockReleasedOnExit ==
  /\ \A p \in Procs : ctl[p].acquires <= 1
  /\ \A p \in Procs : (pc[p] # "idle" /\ pc[p] # "exited") => ctl[p].acquires = 1
  /\ \A p \in Procs : Released(p) => (lockHolder # p /\ ~ctl[p].held)
  /\ (\A p \in Procs : Released(p)) => lockHolder = "none"

AcquiredAfterExit ==
  \E p, q \in Procs :
    /\ pc[p] = "exited"
    /\ ctl[q].held
    /\ lockHolder = q

\* C8: an invocation with a notifier has sent no event before its deferred
\* call and exactly one when it has returned, on every exit path.
OneNotification ==
  \A p \in Procs :
    /\ ~Returned(p) => ctl[p].notifs = <<>>
    /\ Returned(p) => Len(ctl[p].notifs) = (IF ctl[p].notifier THEN 1 ELSE 0)

NotifiedOnContention ==
  \E p \in Procs :
    /\ Returned(p)
    /\ ctl[p].notifier
    /\ ctl[p].ret = ErrLocked
    /\ Len(ctl[p].notifs) = 1

\* C9: the event of a returned invocation has status failed and carries
\* the returned error when the invocation returned an error, and has
\* status success when it returned nil.
NotificationMatchesReturn ==
  \A p \in Procs :
    (Returned(p) /\ ctl[p].notifier) =>
      \A i \in DOMAIN ctl[p].notifs :
        ctl[p].notifs[i] = [Status |-> statusFromErr(ctl[p].ret), Error |-> ctl[p].ret]

\* C10: a Backup with idempotent set whose Storage.Exists found an object
\* at its key returns the already-exists error and has called neither
\* Dump nor Put, nor issued a Stat, manifest write, List or Delete.
IdempotencyGate ==
  \A p \in Procs :
    (ctl[p].op = "backup" /\ ctl[p].idempotent /\ ctl[p].gateSaw) =>
      /\ ctl[p].ret = ErrExists
      /\ Done(p)
      /\ ctl[p].trace \cap ({"Dump", "Put"} \cup WriteCalls) = {}
      /\ dump[p].state = "none"

GateHit ==
  \E p \in Procs :
    /\ Returned(p)
    /\ ctl[p].idempotent
    /\ ctl[p].gateSaw
    /\ ctl[p].ret = ErrExists
    /\ ctl[p].key \in DOMAIN objects

\* the artifacts applyRetention sorts: the objects Storage.List returns
\* for the prefix of the database, the manifests left out
Backups ==
  {k \in List(objects, BuildPrefix(cfg.Prefix, cfg.DBType, cfg.DBName)) : ~IsManifest(k)}

\* the running total when the walk is at s[i], D being the deleted keys
RunningTotal(objs, s, i, D) ==
  SumSizes(objs, {s[j] : j \in DOMAIN s}) - SumSizes(objs, {s[j] : j \in 1..(i - 1)} \cap D)

\* one of the three rules retains s[i] (position i - 1 counted from 0)
Retained(objs, s, i, D, policy, t) ==
  \/ (policy.KeepLast > 0 /\ i - 1 < policy.KeepLast)
  \/ (policy.KeepDays > 0 /\ objs[s[i]].mod > t - policy.KeepDays)
  \/ (policy.MaxBytes > 0 /\ RunningTotal(objs, s, i, D) <= policy.MaxBytes)

\* the walk of applyRetention under policy deletes s[i] exactly when no
\* rule retains it, and the Delete calls remove it and its manifest
WalkMatches(objs, s, policy, t) ==
  LET D == Deletes(objs, s, policy, t)
  IN /\ \A i \in DOMAIN s : s[i] \in D <=> ~Retained(objs, s, i, D, policy, t)
     /\ DOMAIN DeleteAll(objs, D, {}) = DOMAIN objs \ (D \cup {ManifestKey(k) : k \in D})

\* artifacts of ages 0, 1, 2, 3 and 10 days, ten bytes each, under
\* keep_last = 2, keep_days = 5, max_bytes = 0: only the oldest is deleted
RetentionExample ==
  LET objs == [k \in {OwnKey(10 - a) : a \in {0, 1, 2, 3, 10}} |->
                 [data |-> [i \in 1..10 |-> Raw("b1")], man |-> NoManifest,
                  mod |-> k[Len(k)][1]]]
      policy == [KeepLast |-> 2, KeepDays |-> 5, MaxBytes |-> 0]
  IN \A s \in SortedNewestFirst(objs, DOMAIN objs) :
       /\ Deletes(objs, s, policy, 10) = {OwnKey(0)}
       /\ WalkMatches(objs, s, policy, 10)

AtRetention == \E p \in Procs : pc[p] = "b_retention"

AllZero(policy) == policy.KeepLast = 0 /\ policy.KeepDays = 0 /\ policy.MaxBytes = 0

ManifestAbsenceTolerated ==
  \A p \in Procs :
    (/\ Returned(p)
     /\ ctl[p].op = "restore"
     /\ ctl[p].ret # ErrLocked
     /\ ~ctl[p].dryRun
     /\ "GetManifest" \in ctl[p].trace
     /\ rst[p].manifest = NoManifest
     /\ ctl[p].key \in DOMAIN backedUp
     /\ ctl[p].faults = {})
    => (ctl[p].ret = Nil /\ rst[p].received = backedUp[ctl[p].key])

\* the prefix written out is a proper initial part of the key written out
StrictPrefix(prefix, k) == StringHasPrefix(k, prefix) /\ k # prefix

\* the extensions buildExtension yields, and none
Extensions ==
  {buildExtension(c, e) : c \in {TypeNone, TypeGzip, TypeZstd}, e \in BOOLEAN} \cup {""}

\* C13: for every prefix, database type, database name, backup type,
\* timestamp and extension, the key BuildObjectKey builds has the prefix
\* BuildPrefix builds as a strict prefix; so has the key of every Backup,
\* and the listing of that prefix holds the artifact it stored.
KeyHasPrefix ==
  /\ \A bt \in BackupTypes, t \in 0..MaxTime, ext \in Extensions :
       StrictPrefix(BuildPrefix(cfg.Prefix, cfg.DBType, cfg.DBName),
                    BuildObjectKey(cfg.Prefix, cfg.DBType, cfg.DBName, bt, t, ext))
  /\ \A p \in Procs :
       (ctl[p].op = "backup" /\ ctl[p].key # NoKey) =>
         /\ StrictPrefix(BuildPrefix(cfg.Prefix, cfg.DBType, cfg.DBName), ctl[p].key)
         /\ pc[p] = "b_retention" => ctl[p].key \in Backups

\* a Backup has just built its artifact key
KeyBuilt == \E p \in Procs : pc[p] = "b_exists"

\* C14: for the prefix, database type and name of the configuration and
\* timestamps t1 < t2, the key built for t1 is before the key built for
\* t2 in the order of strings, whatever the backup types and extensions
\* of the two; the key a Backup built is after every key of an earlier
\* timestamp.
KeysSortByTime ==
  /\ KeyBuilt =>
       \A t1, t2 \in 0..MaxTime, bt1, bt2 \in BackupTypes, e1, e2 \in Extensions :
         t1 < t2 =>
           Less(Render(BuildObjectKey(cfg.Prefix, cfg.DBType, cfg.DBName, bt1, t1, e1)),
                Render(BuildObjectKey(cfg.Prefix, cfg.DBType, cfg.DBName, bt2, t2, e2)))
  /\ \A p \in Procs :
       (ctl[p].op = "backup" /\ ctl[p].key # NoKey) =>
         \A t \in 0..MaxTime, bt \in BackupTypes, e \in Extensions :
           t < ctl[p].key[Len(ctl[p].key)][1] =>
             Less(Render(BuildObjectKey(cfg.Prefix, cfg.DBType, cfg.DBName, bt, t, e)),
                  Render(ctl[p].key))

\* a Backup stored its artifact under a key built after the clock moved
LaterKeyStored ==
  \E p \in Procs :
    /\ ctl[p].op = "backup"
    /\ ctl[p].key \in DOMAIN objects
    /\ ctl[p].key[Len(ctl[p].key)][1] > 0
    /\ Less(Render(BuildObjectKey(cfg.Prefix, cfg.DBType, cfg.DBName, "differential", 0,
                                  buildExtension(TypeZstd, TRUE))),
            Render(ctl[p].key))

\* the configuration names a compression compress.WrapWriter rejects
BadCompression == WrapWriterErr(cfg.Compression) # Nil

\* the configuration enables encryption with a key ParseKey rejects
BadKey ==
  cfg.Encryption /\ cfg.EncryptionKey # "" /\ ParseKey(cfg.EncryptionKey).err # Nil

\* C15: under a configuration with an unknown compression identifier or
\* an invalid encryption key, Backup never calls Adapter.Dump, begins no
\* Put and leaves no object at its key.
ConfigErrorsFailFast ==
  \A p \in Procs :
    (ctl[p].op = "backup" /\ (BadCompression \/ BadKey)) =>
      /\ ctl[p].trace \cap {"Dump", "Put"} = {}
      /\ dump[p].state = "none"
      /\ ctl[p].key # NoKey => ctl[p].key \notin DOMAIN objects

\* the errors of a configuration and of a precondition a single backup
\* command can meet
NotRetriable ==
  {ErrNoKey, ErrBackupType, ErrCompression, ErrBadKey, ErrValidate, ErrLocked,
   ErrWindowMiss}

\* C16: the retry loop of the backup command has never invoked Backup
\* again after Backup returned the error of a configuration or of a
\* precondition.
ConfigErrorsNotRetried ==
  \A p \in Procs : ctl[p].retried \cap NotRetriable = {}

\* ------------------------------------------------------------------- C17
\* C17: once the artifact is stored and Stat has returned its size (the
\* manifest Put has been attempted), no failure changes the outcome: the
\* failure of the manifest Put, of the retention listing or of a retention
\* Delete is dropped, Backup returns nil and the notification it sends
\* has status success.
PostSuccessNonFatal ==
  \A p \in Procs :
    /\ ctl[p].swallowed # {} => "ManifestPut" \in ctl[p].trace
    /\ (ctl[p].op = "backup" /\ "ManifestPut" \in ctl[p].trace) =>
         /\ ctl[p].ret \in {Pending, Nil}
         /\ ctl[p].opErr = Nil
         /\ Done(p) => ctl[p].ret = Nil
         /\ Returned(p) =>
              \A i \in DOMAIN ctl[p].notifs :
                ctl[p].notifs[i] = [Status |-> "success", Error |-> Nil]

\* a Backup returned nil and notified success although its manifest Put
\* or the Delete of a retention pass failed: its artifact is stored
\* without a manifest
ManifestLostBackupSucceeded ==
  \E p \in Procs :
    /\ Returned(p)
    /\ ctl[p].op = "backup"
    /\ ctl[p].ret = Nil
    /\ ctl[p].notifs = <<[Status |-> "success", Error |-> Nil]>>
    /\ ctl[p].key \in DOMAIN objects
    /\ ManifestKey(ctl[p].key) \notin DOMAIN objects

\* ------------------------------------------------------------------- C18
\* C18: within one Backup the manifest Put is issued only after the
\* artifact Put returned nil, the encode task returned nil, the producer's
\* Wait returned nil and Stat was called; retention's List and Delete are
\* issued only after the manifest Put attempt. A Backup that returns an
\* error has issued no manifest Put, no List and no Delete.
BackupOrdering ==
  \A p \in Procs :
    ctl[p].op = "backup" =>
      /\ "ManifestPut" \in ctl[p].trace =>
           /\ {"Dump", "Put", "Stat"} \subseteq ctl[p].trace
           /\ ctl[p].faults \cap {"sink", "wait"} = {}
           /\ ctl[p].waitErr = Nil
           /\ pc[p] \in {"b_retention", "d_release"} =>
                /\ snk[p].pc = "done" /\ snk[p].ret = Nil
                /\ enc[p].ret = Nil
                /\ dump[p].status = Nil
                /\ eg[p].running = 0 /\ eg[p].err = Nil
      /\ pc[p] = "b_stat" =>
           /\ snk[p].pc = "done" /\ snk[p].ret = Nil
           /\ enc[p].ret = Nil
           /\ ctl[p].waitErr = Nil
      /\ ctl[p].trace \cap {"List", "Delete"} # {} =>
           /\ "ManifestPut" \in ctl[p].trace
           /\ pc[p] \notin {"b_stat", "b_retention"}
      /\ "Delete" \in ctl[p].trace => "List" \in ctl[p].trace
      /\ (Done(p) /\ ctl[p].ret # Nil) =>
           ctl[p].trace \cap {"ManifestPut", "List", "Delete"} = {}

\* a Backup went through every stage: artifact Put, Stat, manifest Put,
\* List and Delete, and returned nil
AllStagesInOrder ==
  \E p \in Procs :
    /\ Returned(p)
    /\ ctl[p].op = "backup"
    /\ ctl[p].ret = Nil
    /\ {"Put", "Stat", "ManifestPut", "List", "Delete"} \subseteq ctl[p].trace

\* ------------------------------------------------------------------- C19
\* C19: a Restore that finds dry-run set, after it acquired the lock,
\* validated the adapter and tried to load the manifest, returns nil at
\* once: it has called nothing but Validate and the manifest load (no Get
\* of the artifact, no Put, no Delete), it never starts the adapter's
\* restore consumer, its steps leave the stored objects as they were, and
\* its notification says success, whether or not the artifact exists.
DryRunStops ==
  [][\A p \in Procs :
       (ctl'[p].op = "restore" /\ ctl'[p].dryRun) =>
         /\ ctl'[p].acquires = 1
         /\ ctl'[p].trace = {"Validate", "GetManifest"}
         /\ ctl'[p].ret = Nil /\ ctl'[p].opErr = Nil
         /\ pc'[p] \in {"d_release", "d_notify", "returned"}
         /\ rst'[p].consumer = "none"
         /\ rst'[p].stream = <<>> /\ rst'[p].received = <<>>
         /\ \A i \in DOMAIN ctl'[p].notifs : ctl'[p].notifs[i].Status = "success"
         /\ pc'[p] # pc[p] => objects' = objects /\ backedUp' = backedUp]_vars

\* a dry-run Restore of a key at which nothing is stored returned nil
DryRunOfMissingArtifact ==
  \E p \in Procs :
    /\ Returned(p)
    /\ ctl[p].op = "restore"
    /\ ctl[p].dryRun
    /\ ctl[p].key \notin DOMAIN objects
    /\ ctl[p].ret = Nil
    /\ ctl[p].notifs = <<[Status |-> "success", Error |-> Nil]>>

\* ------------------------------------------------------------------- C20
\* C20: a retention pass for (prefix, dbType, dbName) removes only objects
\* whose key lies under BuildPrefix(prefix, dbType, dbName), on a backend
\* that lists by directory and on one that lists by raw string prefix; an
\* object of a database whose name begins with dbName is never removed.
RetentionScoped ==
  [][\A k \in DOMAIN objects \ DOMAIN objects' :
       HasPrefix(k, BuildPrefix(cfg.Prefix, cfg.DBType, cfg.DBName))]_vars

\* ------------------------------------------------------------------- C21
\* One Backup up to its window check, under every schedule a configuration
\* file may hold: each bound empty, a minute of the day or a string that
\* is no time; the timezone empty, known or unknown.
WindowInputs == {""} \cup Clocks \cup {"1am"}

ZoneInputs == {"", "UTC", "East", "Mars/Olympus"}

WindowConfigs ==
  {c \in [Compression : {TypeNone}, Encryption : {FALSE}, EncryptionKey : {""},
          Adapter : {"file"}, Prefix : {Prefix}, DBType : {DBType},
          DBName : {DBName}, Backend : {"local"}, RetryCount : {1},
          Schedule : [WindowStart : WindowInputs, WindowEnd : WindowInputs,
                      Timezone : ZoneInputs]] : TRUE}

InitWindow ==
  /\ cfg \in WindowConfigs
  /\ lockHolder = "none"
  /\ objects = <<>>
  /\ now = 0
  /\ backedUp = <<>>
  /\ pc = [p \in Procs |-> "idle"]
  /\ ctl = [p \in Procs |-> CtlInit]
  /\ dump = [p \in Procs |-> DumpInit]
  /\ enc = [p \in Procs |-> EncInit]
  /\ snk = [p \in Procs |-> SnkInit]
  /\ pipe = [p \in Procs |-> PipeInit]
  /\ eg = [p \in Procs |-> EgInit]
  /\ rst = [p \in Procs |-> RstInit]

WindowNext ==
  BackupAcquire(Runner) \/ BackupWindow(Runner) \/ DeferRelease(Runner)
  \/ DeferNotify(Runner)

SpecWindow == InitWindow /\ [][WindowNext]_vars

\* the minute of the day a "15:04" string names
MinuteOf(v) == CHOOSE m \in Minutes : ClockStrings[m + 1] = v

\* the minute of the day the clock reading t shows in the zone tz
LocalMinute(t, tz) ==
  (t.min + (IF tz \in DOMAIN ZoneOffset THEN ZoneOffset[tz] ELSE 0)) % (MaxMinute + 1)

\* the rule of the window for the minute m and the bounds start and end
WindowAdmits(m, start, end) ==
  IF start = "" /\ end = "" THEN TRUE
  ELSE IF start # "" /\ end # "" THEN
    IF MinuteOf(end) > MinuteOf(start)
    THEN MinuteOf(start) <= m /\ m <= MinuteOf(end)
    ELSE m >= MinuteOf(start) \/ m <= MinuteOf(end)
  ELSE IF start # "" THEN m >= MinuteOf(start)
  ELSE m <= MinuteOf(end)

\* the schedule is one InWindow can read
Readable(sch) ==
  \/ sch.WindowStart = "" /\ sch.WindowEnd = ""
  \/ /\ sch.WindowStart \in {""} \cup Clocks
     /\ sch.WindowEnd \in {""} \cup Clocks
     /\ sch.Timezone \in {""} \cup DOMAIN ZoneOffset

\* C21: for a readable schedule InWindow admits the clock reading exactly
\* when the window's rule admits its minute in the window's timezone
\* (always with both bounds empty; start <= now <= end when end is after
\* start; now >= start or now <= end when it is not; now >= start with
\* only a start; now <= end with only an end), whatever the second; and
\* Backup returns the window error, having done nothing, when it does not.
WindowRule ==
  \A p \in Procs :
    (ctl[p].op = "backup" /\ ctl[p].clock # NoClock /\ Readable(cfg.Schedule)) =>
      LET admitted == WindowAdmits(LocalMinute(ctl[p].clock, cfg.Schedule.Timezone),
                                   cfg.Schedule.WindowStart, cfg.Schedule.WindowEnd)
      IN /\ admitted => (pc[p] = "b_validate" /\ ctl[p].ret = Pending)
         /\ ~admitted => /\ pc[p] = "d_release"
                         /\ ctl[p].ret = ErrWindowMiss
                         /\ ctl[p].trace = {}

\* a window that wraps past midnight, read in a zone ahead of the clock's,
\* admitted a reading in the last second before its end
WrapWindowAdmitted ==
  \E p \in Procs :
    /\ pc[p] = "b_validate"
    /\ cfg.Schedule = [WindowStart |-> "00:02", WindowEnd |-> "00:00", Timezone |-> "East"]
    /\ ctl[p].clock = [min |-> 2, sec |-> 1]

\* ---------------------------------------------------------------------
\* C22
\* ---------------------------------------------------------------------

\* the attempts util.Retry makes at most: one when attempts <= 1
MaxAttempts == IF cfg.RetryCount <= 1 THEN 1 ELSE cfg.RetryCount

\* the counting part of C22 alone: Backup has been invoked at most
\* max(1, attempts) times, at least once when it has returned, and never
\* again after it returned nil
RetryCounts ==
  \A p \in Procs :
    /\ ctl[p].calls <= MaxAttempts
    /\ Nil \notin ctl[p].retried
    /\ (pc[p] = "returned" /\ ctl[p].op = "backup") => ctl[p].calls >= 1

\* C22: the retry loop has invoked Backup at least once and at most
\* max(1, attempts) times, never again after Backup returned nil, and
\* every backoff it has waited lies between two attempts: when Backup has
\* returned, the waits are fewer than the attempts.
RetryBounded ==
  /\ RetryCounts
  /\ \A p \in Procs :
       (pc[p] = "returned" /\ ctl[p].op = "backup") => ctl[p].waits < ctl[p].calls

\* ---------------------------------------------------------------------
\* C23
\* ---------------------------------------------------------------------

\* C23: dumpStream.Wait has run, and has closed the producer's stream,
\* only when both the encode task and the sink task have returned.
WaitAfterTasks ==
  \A p \in Procs : dump[p].rclosed => eg[p].running = 0

\* ---------------------------------------------------------------------
\* C24
\* ---------------------------------------------------------------------

\* C24: when a failure of the sink task, of the encode task or of
\* dumpStream.Wait has been observed during the transfer, the error Backup
\* returns, and keeps for its notification, is the first one observed.
FirstErrorWins ==
  \A p \in Procs :
    (pc[p] = "d_release" /\ ctl[p].first # Nil) =>
      /\ ctl[p].ret = ctl[p].first
      /\ ctl[p].opErr = ctl[p].first

\* ---------------------------------------------------------------------
\* C25
\* ---------------------------------------------------------------------

\* the block the j-th Close of a successful encode hands to the pipe: the
\* final block of the layer closest to the producer comes first and has
\* gone through every layer below it
FinalBlock(stack, j) == Through(SubSeq(stack, 1, Len(stack) + 1 - j), <<EndMark>>)

\* the final blocks among the items of a stream
FinalBlocks(d) == {i \in DOMAIN d : d[i][Len(d[i])] = EndMark}

\* C25: the write end of the pipe is closed without an error only by an
\* encode task that returns nil; when the encode task has returned nil the
\* write end is closed and the sink has received one
\* final block of every layer and no more, after all the other items, in
\* the order from the layer closest to the producer to the layer closest
\* to the sink, each wrapped by the layers below it.
ClosingOrder ==
  \A p \in Procs :
    /\ pipe[p].werr = EOF => (enc[p].pc = "done" /\ enc[p].ret = Nil)
    /\ (enc[p].pc = "done" /\ enc[p].ret = Nil /\ ctl[p].key \in DOMAIN objects) =>
         LET d == objects[ctl[p].key].data
             n == Len(enc[p].stack)
         IN /\ pipe[p].werr # Nil
            /\ Len(d) >= n
            /\ FinalBlocks(d) = (Len(d) - n + 1)..Len(d)
            /\ \A j \in 1..n : d[Len(d) - n + j] = FinalBlock(enc[p].stack, j)

\* an encode through a compression and an encryption layer has succeeded
\* and the sink holds a producer byte and both final blocks
TwoLayersClosed ==
  \E p \in Procs :
    /\ enc[p].pc = "done"
    /\ enc[p].ret = Nil
    /\ Len(enc[p].stack) = 2
    /\ ctl[p].key \in DOMAIN objects
    /\ Len(objects[ctl[p].key].data) = 3

\* ---------------------------------------------------------------------
\* C26
\* ---------------------------------------------------------------------

\* One Backup whose context may be cancelled during the transfer. The
\* scheduler runs the controller, the tasks and the subprocess, and
\* os/exec kills the subprocess of a context that is done.
SpecCancel ==
  /\ Init
  /\ [][LiveNext \/ CtxCancel(Runner) \/ ProdKill(Runner)]_vars
  /\ LiveFair
  /\ WF_vars(ProdKill(Runner))

\* the pipe was closed with an error: by CloseWithError, or by a sink task
\* that failed
ConduitFailed(p) ==
  \/ pipe[p].werr \notin {Nil, EOF}
  \/ snk[p].ret \notin {Nil, Pending}

\* the outcome part of C26 alone: after a cancellation during the transfer
\* Backup returns an error in the end, having written no manifest
CancelFailsBackup ==
  \A p \in Procs :
    ctl[p].ctxDone ~>
      (/\ pc[p] = "d_release"
       /\ ctl[p].ret \notin {Nil, Pending}
       /\ ctl[p].opErr # Nil
       /\ "ManifestPut" \notin ctl[p].trace)

\* C26: once the context is done during the transfer, the pipe is closed
\* with an error, both tasks return, and Backup returns an error in the
\* end, having written no manifest and with the error its notification
\* reports.
CancelUnblocks ==
  \A p \in Procs :
    ctl[p].ctxDone ~>
      (/\ pc[p] = "d_release"
       /\ eg[p].running = 0
       /\ ConduitFailed(p)
       /\ ctl[p].ret \notin {Nil, Pending}
       /\ ctl[p].opErr # Nil
       /\ "ManifestPut" \notin ctl[p].trace)

\* ---------------------------------------------------------------------
\* C27
\* ---------------------------------------------------------------------

\* C27: the retention pass at the end of a successful Backup removes
\* neither the artifact this Backup stored nor its manifest.
JustStoredKept ==
  [][\A p \in Procs :
       pc[p] = "b_retention" =>
         \A k \in {ctl[p].key, ManifestKey(ctl[p].key)} :
           k \in DOMAIN objects => k \in DOMAIN objects']_vars

\* ---------------------------------------------------------------------
\* C28
\* ---------------------------------------------------------------------

\* C28: a retention pass all of whose Delete calls succeeded has removed
\* no artifact of its listing that was modified later than an artifact of
\* the listing it left in the store.
NewestPrefixRetained ==
  [][\A p \in Procs :
       (pc[p] = "b_retention" /\ "Delete" \notin ctl'[p].swallowed) =>
         \A d \in Backups \ DOMAIN objects', r \in Backups \cap DOMAIN objects' :
           objects[d].mod <= objects[r].mod]_vars

\* ---------------------------------------------------------------------
\* C29
\* ---------------------------------------------------------------------

\* C29: while a Backup with idempotent set has passed its Exists check and
\* its sink task has not yet opened the target, no object is stored at its
\* key: the Put it starts creates the object and truncates none.
NoOverwrite ==
  \A p \in Procs :
    (ctl[p].idempotent /\ snk[p].pc = "start") => ctl[p].key \notin DOMAIN objects

\* a Backup with idempotent set is copying into the object it created
\* while the other command has come back from the held lock
PutUnderGate ==
  \E p \in Procs, q \in Procs :
    /\ p # q
    /\ ctl[p].idempotent
    /\ snk[p].pc = "copy"
    /\ ctl[p].key \in DOMAIN objects
    /\ Returned(q)
    /\ ctl[q].op = "backup"
    /\ ctl[q].ret = ErrLocked

\* ---------------------------------------------------------------------
\* C30
\* ---------------------------------------------------------------------

\* C30: a Restore that started the consumer of Adapter.Restore has, when
\* it returns, closed the consumer's writer and called its Wait.
ConsumerAwaited ==
  \A p \in Procs :
    (Done(p) /\ ctl[p].op = "restore" /\ rst[p].consumer # "none") =>
      rst[p].consumer \in {"closed", "waited"}

====
